---- MODULE Spec2Model ----
(***************************************************************************)
(* A model of the Ableton Push 2 control-surface driver                    *)
(* (libs/surfaces/push2/push2.cc, push2.h): the connection life cycle,     *)
(* the USB handle, the LED registry of buttons and pads, the pad scale     *)
(* mapping and the colour palette allocator.                               *)
(*                                                                         *)
(* The driver's fields are the variables below.  Every handler is one      *)
(* action; the helpers a handler calls are operators from a state record   *)
(* to a state record, composed in the order of the calls in the source.    *)
(***************************************************************************)
EXTENDS Integers, Sequences, FiniteSets, TLC

VARIABLES
    phase,                 \* "alive" between Push2::Push2 and Push2::~Push2, then
                           \* "destroyed"; "terminated" after an uncaught exception
    _handle,               \* libusb_device_handle* (0 = null, 1 = the opened device)
    usb_open,              \* libusb: number of device handles opened and not yet closed
    usb_claimed,           \* libusb: interface 0x00 is claimed
    _in_use,
    _connection_state,     \* subset of {InputConnected, OutputConnected}
    _active,               \* ControlProtocol::_active
    timers,                \* 40 ms timeout sources attached to the event loop and connected
    _vblank_connection,    \* the sigc::connection refers to a connected timeout source
    session_connections,   \* number of connect_session_signals() batches still connected
    ports,                 \* _async_in / _async_out are registered (_input_port, _output_port set)
    buttons,               \* _id_button_map: ButtonID -> [color, state]
    pads,                  \* _nn_pad_map: pad note number -> Pad
    _fn_pad_map,           \* multimap generated note -> pad, in insertion order
    _mode, _note_grid_origin, _row_interval, _scale_root, _root_octave, _in_key,
    _octave_shift, _percussion,
    _selection_color, _contrast_color,
    _current_layout, _previous_layout, _splash_start,
    _current_pad_target,   \* the MIDI track the pad port is wired to ("none" or a track)
    selected,              \* environment: the first selected MIDI track ("none" or a track)
    _color_map,            \* std::map rgba -> palette index, as a function
    _color_map_free_list,  \* std::stack<uint8_t>, top is the last element
    _pressure_mode,
    now,                   \* environment: get_microseconds()
    written,               \* messages the last handler wrote to the output port, in order
    calls,                 \* observable calls made by the last handler, in order
    ret,                   \* return value of the last handler
    out,                   \* events the last pad_filter appended to its output buffer
    rt,                    \* a set_pad_scale in progress on the dispatcher thread and a
                           \* pad_filter in progress on the realtime thread
    last                   \* the handler that ran last, and the state it started from

vars == << phase, _handle, usb_open, usb_claimed, _in_use, _connection_state, _active,
           timers, _vblank_connection, session_connections, ports, buttons, pads,
           _fn_pad_map, _mode, _note_grid_origin, _row_interval, _scale_root,
           _root_octave, _in_key, _octave_shift, _percussion, _selection_color,
           _contrast_color, _current_layout, _previous_layout, _splash_start,
           _current_pad_target, selected, _color_map, _color_map_free_list,
           _pressure_mode, now, written, calls, ret, out, rt, last >>

(***************************************************************************)
(* Bounds of the model.                                                    *)
(***************************************************************************)
\* begin_using_device attaches one more timeout source each time it runs
MaxTimers == 2

(***************************************************************************)
(* Program constants.                                                      *)
(***************************************************************************)
InputConnected == "InputConnected"
OutputConnected == "OutputConnected"
FullyConnected == {InputConnected, OutputConnected}

Black == 0
Red == 127
Green == 126
Blue == 125
DarkGray == 124
LightGray == 123
White == 122

LEDStates == << "NoTransition", "OneShot24th", "OneShot16th", "OneShot8th", "OneShot4th",
                "OneShot2th", "Pulsing24th", "Pulsing16th", "Pulsing8th", "Pulsing4th",
                "Pulsing2th", "Blinking24th", "Blinking16th", "Blinking8th",
                "Blinking4th", "Blinking2th" >>

\* the enumerator's value: NoTransition = 0 ... Blinking2th = 15
StateIndex(st) == (CHOOSE i \in 1..Len(LEDStates) : LEDStates[i] = st) - 1

\* enum ButtonID, in declaration order (the iteration order of _id_button_map)
ButtonIDs == << "TapTempo", "Metronome",
                "Upper1", "Upper2", "Upper3", "Upper4", "Upper5", "Upper6", "Upper7", "Upper8",
                "Setup", "User", "Delete", "AddDevice", "Device", "Mix", "Undo", "AddTrack",
                "Browse", "Clip", "Mute", "Solo", "Stop",
                "Lower1", "Lower2", "Lower3", "Lower4", "Lower5", "Lower6", "Lower7", "Lower8",
                "Master", "Convert", "DoubleLoop", "Quantize", "Duplicate", "New",
                "FixedLength", "Automate", "RecordEnable", "Play",
                "Fwd32ndT", "Fwd32nd", "Fwd16thT", "Fwd16th", "Fwd8thT", "Fwd8th",
                "Fwd4trT", "Fwd4tr", "Up", "Right", "Down", "Left", "Repeat", "Accent",
                "Scale", "Layout", "Note", "Session", "OctaveUp", "PageRight",
                "OctaveDown", "PageLeft", "Shift", "Select" >>

ButtonSet == { ButtonIDs[i] : i \in 1..Len(ButtonIDs) }

\* the pads' fixed note numbers, 36 + row*8 + col
PadNotes == 36..99

\* Push2::Pad::Pad
NewPad(ex) == [ color |-> Black, state |-> "NoTransition", do_when_pressed |-> "FlashOn",
                filtered |-> ex, perma_color |-> Black ]

\* Push2::LED::LED, through Push2::Button::Button
NewButton == [ color |-> Black, state |-> "NoTransition" ]

(***************************************************************************)
(* Messages.  A message is a record; an LED message carries the status     *)
(* byte 0x90|state (pad) or 0xB0|state (button), the control and the       *)
(* colour index; a System-Exclusive message carries its bytes.             *)
(***************************************************************************)
\* Push2::Pad::state_msg
PadStateMsg(nn, pad) ==
    [ kind |-> "pad", pad |-> nn, button |-> "", status |-> 144 + StateIndex(pad.state),
      color |-> pad.color, bytes |-> << >> ]

\* Push2::Button::state_msg
ButtonStateMsg(id, b) ==
    [ kind |-> "button", pad |-> -1, button |-> id, status |-> 176 + StateIndex(b.state),
      color |-> b.color, bytes |-> << >> ]

SysexMsg(bytes) ==
    [ kind |-> "sysex", pad |-> -1, button |-> "", status |-> 240, color |-> 0,
      bytes |-> bytes ]

\* Push2::write
write(s, msg) == [s EXCEPT !.written = Append(@, msg)]

\* an observable call of the running handler
Log(s, e) == [s EXCEPT !.calls = Append(@, e)]

Count(seq, e) == Cardinality({ i \in 1..Len(seq) : seq[i] = e })

(***************************************************************************)
(* The driver's state as one record, so that the helpers a handler calls   *)
(* compose in the order of the source.                                     *)
(***************************************************************************)
Cur ==
    [ _handle |-> _handle, usb_open |-> usb_open, usb_claimed |-> usb_claimed,
      _in_use |-> _in_use, _connection_state |-> _connection_state, _active |-> _active,
      timers |-> timers, _vblank_connection |-> _vblank_connection,
      session_connections |-> session_connections, ports |-> ports,
      buttons |-> buttons, pads |-> pads, _fn_pad_map |-> _fn_pad_map,
      _mode |-> _mode, _note_grid_origin |-> _note_grid_origin,
      _row_interval |-> _row_interval, _scale_root |-> _scale_root,
      _root_octave |-> _root_octave, _in_key |-> _in_key,
      _octave_shift |-> _octave_shift, _percussion |-> _percussion,
      _selection_color |-> _selection_color, _contrast_color |-> _contrast_color,
      _current_layout |-> _current_layout, _previous_layout |-> _previous_layout,
      _splash_start |-> _splash_start, _current_pad_target |-> _current_pad_target,
      selected |-> selected, _color_map |-> _color_map,
      _color_map_free_list |-> _color_map_free_list, _pressure_mode |-> _pressure_mode,
      now |-> now,
      \* a handler starts with nothing written, nothing called and no exception;
      \* rnd holds the values random () will return to it
      written |-> << >>, calls |-> << >>, ret |-> 0, out |-> << >>,
      exception |-> FALSE, rnd |-> << >> ]

(***************************************************************************)
(* The USB handle.                                                         *)
(***************************************************************************)
\* libusb_close: the handle is no longer open (and holds no claim)
libusb_close(s) == Log([s EXCEPT !.usb_open = @ - 1], "libusb_close")

\* the return of device_acquire, made observable
Returned(s, name) == Log(s, IF s.ret = 0 THEN name \o ":ok" ELSE name \o ":fail")

\* device_acquire without the "already open" test
device_acquire_reopen(s, open_ok, claim_ok) ==
    LET s0 == Log(s, "device_acquire") IN
    IF ~open_ok THEN
        Returned([Log(s0, "libusb_open") EXCEPT !._handle = 0, !.ret = -1],
                 "device_acquire")
    ELSE
        LET s1 == [Log(s0, "libusb_open") EXCEPT !._handle = 1, !.usb_open = @ + 1]
            s2 == Log(s1, "libusb_claim_interface")
        IN  IF ~claim_ok THEN
                Returned([libusb_close(s2) EXCEPT !._handle = 0, !.ret = -1],
                         "device_acquire")
            ELSE
                Returned([s2 EXCEPT !.usb_claimed = TRUE, !.ret = 0], "device_acquire")

\* device_acquire without libusb_close on a failed claim
device_acquire_leak(s, open_ok, claim_ok) ==
    LET s0 == Log(s, "device_acquire") IN
    IF s0._handle # 0 THEN
        Returned([s0 EXCEPT !.ret = 0], "device_acquire")
    ELSE IF ~open_ok THEN
        Returned([Log(s0, "libusb_open") EXCEPT !._handle = 0, !.ret = -1],
                 "device_acquire")
    ELSE
        LET s1 == [Log(s0, "libusb_open") EXCEPT !._handle = 1, !.usb_open = @ + 1]
            s2 == Log(s1, "libusb_claim_interface")
        IN  IF ~claim_ok THEN
                Returned([s2 EXCEPT !._handle = 0, !.ret = -1], "device_acquire")
            ELSE
                Returned([s2 EXCEPT !.usb_claimed = TRUE, !.ret = 0], "device_acquire")

\* Push2::device_acquire; open_ok and claim_ok are the outcomes of
\* libusb_open_device_with_vid_pid and libusb_claim_interface
device_acquire(s, open_ok, claim_ok) ==
    LET s0 == Log(s, "device_acquire") IN
    IF s0._handle # 0 THEN
        \* already open
        Returned([s0 EXCEPT !.ret = 0], "device_acquire")
    ELSE IF ~open_ok THEN
        Returned([Log(s0, "libusb_open") EXCEPT !._handle = 0, !.ret = -1],
                 "device_acquire")
    ELSE
        LET s1 == [Log(s0, "libusb_open") EXCEPT !._handle = 1, !.usb_open = @ + 1]
            s2 == Log(s1, "libusb_claim_interface")
        IN  IF ~claim_ok THEN
                Returned([libusb_close(s2) EXCEPT !._handle = 0, !.ret = -1],
                         "device_acquire")
            ELSE
                Returned([s2 EXCEPT !.usb_claimed = TRUE, !.ret = 0], "device_acquire")

\* Push2::device_release
device_release(s) ==
    LET s0 == Log(s, "device_release") IN
    IF s0._handle # 0 THEN
        LET s1 == [Log(s0, "libusb_release_interface") EXCEPT !.usb_claimed = FALSE]
        IN  [libusb_close(s1) EXCEPT !._handle = 0]
    ELSE s0

(***************************************************************************)
(* The LED registry: buttons.                                              *)
(***************************************************************************)
\* for each id of ids in order: b->set_color (color); b->set_state (state);
\* write (b->state_msg())
SetButtons(s, ids, color, state) ==
    LET b == [ color |-> color, state |-> state ]
        idset == { ids[i] : i \in 1..Len(ids) }
    IN  [s EXCEPT !.buttons = [ id \in ButtonSet |-> IF id \in idset THEN b ELSE @[id] ],
                  !.written = @ \o [ i \in 1..Len(ids) |-> ButtonStateMsg(ids[i], b) ]]

StripButtons == << "Upper1", "Upper2", "Upper3", "Upper4", "Upper5", "Upper6", "Upper7",
                   "Upper8", "Lower1", "Lower2", "Lower3", "Lower4", "Lower5", "Lower6",
                   "Lower7", "Lower8" >>

\* Push2::strip_buttons_off
strip_buttons_off(s) == SetButtons(s, StripButtons, Black, "OneShot24th")

LitButtons == << "Mute", "Solo", "Master", "Up", "Right", "Left", "Down", "Note", "Session",
                 "Mix", "AddTrack", "Delete", "Undo", "Metronome", "Shift", "Select", "Play",
                 "RecordEnable", "Automate", "Repeat", "Note", "Session", "Quantize",
                 "Duplicate", "Browse", "PageRight", "PageLeft", "OctaveUp", "OctaveDown",
                 "Layout", "Scale", "Stop" >>

OffButtons == << "TapTempo", "Setup", "User", "Convert", "New", "FixedLength", "Clip",
                 "Fwd32ndT", "Fwd32nd", "Fwd16thT", "Fwd16th", "Fwd8thT", "Fwd8th",
                 "Fwd4trT", "Fwd4tr", "Accent", "Note" >>

\* Push2::init_buttons
init_buttons(s, startup) ==
    IF startup THEN
        SetButtons(SetButtons(s, LitButtons, White, "NoTransition"),
                   OffButtons, Black, "OneShot24th")
    ELSE
        \* (hiding the current layout is the canvas's business)
        SetButtons(s, ButtonIDs, Black, "NoTransition")

\* Push2::init_touch_strip: show bar, autoreturn to center, bar starts at center
init_touch_strip(s) ==
    write(s, SysexMsg(<< 240, 0, 33, 29, 1, 1, 23, 112, 247 >>))

\* Push2::request_pressure_mode
request_pressure_mode(s) ==
    write(s, SysexMsg(<< 240, 0, 33, 29, 1, 1, 31, 247 >>))

(***************************************************************************)
(* Push2::stop_using_device                                                *)
(***************************************************************************)
\* the loop over _xy_pad_map: every pad black, no transition, and written
PadsOff(s) ==
    LET off(p) == [p EXCEPT !.color = Black, !.state = "NoTransition"] IN
    [s EXCEPT !.pads = [ nn \in PadNotes |-> off(@[nn]) ],
              !.written = @ \o [ i \in 1..64 |-> PadStateMsg(35 + i, off(s.pads[35 + i])) ]]

\* _vblank_connection.disconnect ()
VblankDisconnect(s) ==
    IF s._vblank_connection
    THEN Log([s EXCEPT !.timers = @ - 1, !._vblank_connection = FALSE], "timer_disconnect")
    ELSE s

\* the teardown that leaves _in_use set
StopTeardown_keeps_in_use(s) ==
    LET s1 == strip_buttons_off(init_buttons(Log(s, "teardown"), FALSE))
        s2 == VblankDisconnect(PadsOff(s1))
    IN  [s2 EXCEPT !.session_connections = 0, !.ret = 0]

\* the teardown proper, run when the device is in use
StopTeardown(s) ==
    LET s1 == strip_buttons_off(init_buttons(Log(s, "teardown"), FALSE))
        s2 == VblankDisconnect(PadsOff(s1))
    IN  [s2 EXCEPT !.session_connections = 0, !._in_use = FALSE, !.ret = 0]

\* stop_using_device without the "not in use" test
stop_using_device_noguard(s) == StopTeardown(Log(s, "stop_using_device"))

\* Push2::stop_using_device
stop_using_device(s) ==
    LET s0 == Log(s, "stop_using_device") IN
    IF ~s0._in_use THEN
        \* nothing to do, device not in use
        [s0 EXCEPT !.ret = 0]
    ELSE StopTeardown(s0)

(***************************************************************************)
(* Musical modes.  A mode's steps are its notes above the root, in whole   *)
(* tones; ModeSteps4 holds four times each step, so that the note of a     *)
(* step is root + floor (2 * step) = root + (step4 \div 2).                *)
(***************************************************************************)
ModeSteps4(mode) ==
    CASE mode = "IonianMajor"     -> << 4, 8, 10, 14, 18, 22 >>
      [] mode = "Dorian"          -> << 4, 6, 10, 14, 18, 20 >>
      [] mode = "AeolianMinor"    -> << 4, 6, 10, 14, 16, 20 >>
      [] mode = "Phrygian"        -> << 2, 6, 10, 14, 16, 20 >>
      [] mode = "PentatonicMajor" -> << 4, 8, 14, 18 >>
      [] mode = "PentatonicMinor" -> << 6, 10, 14, 20 >>
      [] mode = "Chromatic"       -> << 2, 4, 6, 8, 10, 12, 14, 16, 18, 20, 22 >>

Modes == { "IonianMajor", "Dorian", "AeolianMinor", "Phrygian", "PentatonicMajor",
           "PentatonicMinor", "Chromatic" }

\* row_interval_semitones with Sequential the same in key and chromatic
row_interval_semitones_flat(row_interval, inkey) ==
    CASE row_interval = "Third"      -> 4
      [] row_interval = "Fourth"     -> 5
      [] row_interval = "Fifth"      -> 7
      [] row_interval = "Sequential" -> 8

\* row_interval_semitones
row_interval_semitones(row_interval, inkey) ==
    CASE row_interval = "Third"      -> 4
      [] row_interval = "Fourth"     -> 5
      [] row_interval = "Fifth"      -> 7
      [] row_interval = "Sequential" -> IF inkey THEN 12 ELSE 8
      [] OTHER                       -> 5

\* a visit whose step notes are one semitone sharp
Visit_sharp(steps, scale_root, j) ==
    LET n == Len(steps)
        root == (scale_root - 12) + (12 * (j \div (n + 1)))
        i == (j % (n + 1)) + 1
    IN  IF i <= n THEN [ is_root |-> FALSE, note |-> root + (steps[i] \div 2) + 1 ]
        ELSE [ is_root |-> TRUE, note |-> root + 12 ]

\* The loop shared by mode_notes_bitset and mode_notes_vector visits, in order,
\* the notes of the steps above root = scale_root - 12, then the next root
\* (scale_root), the notes of the steps above it, and so on: with n steps, the
\* visit numbered j (from 0) is in octave j \div (n+1) and is step (j % (n+1)) + 1
\* of it, or the next octave's root after the n steps.
Visit(steps, scale_root, j) ==
    LET n == Len(steps)
        root == (scale_root - 12) + (12 * (j \div (n + 1)))
        i == (j % (n + 1)) + 1
    IN  IF i <= n THEN [ is_root |-> FALSE, note |-> root + (steps[i] \div 2) ]
        ELSE [ is_root |-> TRUE, note |-> root + 12 ]

\* more visits than any loop makes: 12 octaves of at most 12 visits each
MaxVisits == 160

\* the loop breaks at the first visit whose note is above 127 ...
LastVisit(steps, scale_root) ==
    (CHOOSE j \in 0..MaxVisits :
        /\ Visit(steps, scale_root, j).note > 127
        /\ \A h \in 0..(j - 1) : Visit(steps, scale_root, h).note <= 127) - 1

\* ... and keeps, of the visits before, every root and every step note above 0
Kept(v) == v.is_root \/ v.note > 0

ModeNotesLoop(steps, scale_root) ==
    LET visits == [ j \in 1..(LastVisit(steps, scale_root) + 1) |->
                        Visit(steps, scale_root, j - 1) ]
        kept == SelectSeq(visits, Kept)
    IN  [ j \in 1..Len(kept) |-> kept[j].note ]

\* the loop's result for every mode and root, computed once
ModeNotes == [ mode \in Modes, scale_root \in 0..11 |->
                 ModeNotesLoop(ModeSteps4(mode), scale_root) ]

\* mode_notes_vector (octave is not used by the source either)
mode_notes_vector(scale_root, octave, mode) == ModeNotes[mode, scale_root]

\* a bitset with every note set
mode_notes_bitset_all(scale_root, octave, mode) == 0..127

\* mode_notes_bitset, as the set of the bits set
mode_notes_bitset(scale_root, octave, mode) ==
    LET v == ModeNotes[mode, scale_root]
    IN  { v[i] : i \in 1..Len(v) }

\* std::lower_bound over notes[first .. first+count-1]: the binary search
RECURSIVE LowerBoundLoop(_, _, _, _)
LowerBoundLoop(notes, value, first, count) ==
    IF count <= 0 THEN first
    ELSE LET step == count \div 2
             it == first + step
         IN  IF notes[it] < value
             THEN LowerBoundLoop(notes, value, it + 1, count - (step + 1))
             ELSE LowerBoundLoop(notes, value, first, step)

\* a search that always answers notes.begin ()
lower_bound_begin(notes, value) == 1

\* position (1-based) of the first note not less than value, Len + 1 for end ()
lower_bound(notes, value) == LowerBoundLoop(notes, value, 1, Len(notes))

\* Push2::set_pad_note_kind, on the pad record
set_pad_note_kind(s, pad, kind) ==
    LET p == CASE kind = "RootNote" ->
                     [pad EXCEPT !.color = s._selection_color,
                                 !.perma_color = s._selection_color,
                                 !.do_when_pressed = "FlashOff"]
               [] kind = "InScaleNote" ->
                     [pad EXCEPT !.color = White, !.perma_color = White,
                                 !.do_when_pressed = "FlashOff"]
               [] kind = "OutOfScaleNote" ->
                     [pad EXCEPT !.color = Black, !.do_when_pressed = "FlashOn"]
    IN  [p EXCEPT !.state = "NoTransition"]

\* the body of the column loops of set_pad_scale_in_key and _chromatic, on the
\* pad record: pad->filtered = note, then the note's kind
AssignPad(s, pad, note, kind) ==
    set_pad_note_kind(s, [pad EXCEPT !.filtered = note], kind)

Row(index) == (index - 36) \div 8
Col(index) == (index - 36) % 8

\* the pads, in the order the row and column loops visit them
PadOrder == [ k \in 1..64 |-> 35 + k ]

\* Push2::set_pad_scale_in_key.  In row `row` the iterator n starts at
\* lower_bound (ideal_leftmost_note) and advances one note per column, so the
\* pad of column col takes notes[n + col] while n + col is before notes.end ()
set_pad_scale_in_key(s, scale_root, octave, mode, origin, ideal_vertical_semitones) ==
    LET notes == mode_notes_vector(scale_root, octave, mode)
        ideal_first_note == IF origin = "Fixed" THEN 36 ELSE scale_root + (12 * octave)
        n0 == [ row \in 0..7 |->
                  lower_bound(notes, ideal_first_note + (ideal_vertical_semitones * row)) ]
        n(index) == n0[Row(index)] + Col(index)
        reached(index) == n(index) <= Len(notes)
        kind(note) == IF (note % 12) = scale_root THEN "RootNote" ELSE "InScaleNote"
        entry(index) == << notes[n(index)], index >>
        inserted == SelectSeq(PadOrder, reached)
    IN  [s EXCEPT !.pads = [ index \in PadNotes |->
                                IF reached(index)
                                THEN AssignPad(s, @[index], notes[n(index)],
                                               kind(notes[n(index)]))
                                ELSE @[index] ],
                  !._fn_pad_map = @ \o [ k \in 1..Len(inserted) |-> entry(inserted[k]) ]]

\* Push2::set_pad_scale_chromatic.  notes.test (note) on a std::bitset<128>
\* throws std::out_of_range for a note above 127: that pad has its filtered
\* note and its reverse map entry by then, and the loops are left
set_pad_scale_chromatic(s, scale_root, octave, mode, origin, vertical_semitones) ==
    LET notes == mode_notes_bitset(scale_root, octave, mode)
        first_note == IF origin = "Fixed" THEN 36 ELSE scale_root + (12 * octave)
        note(index) == first_note + (vertical_semitones * Row(index)) + Col(index)
        thrown == { index \in PadNotes : note(index) > 127 }
        \* the first pad, in loop order, at which test () throws (100: none)
        stop == IF thrown = {} THEN 100
                ELSE CHOOSE index \in thrown : \A other \in thrown : index <= other
        kind(index) == IF note(index) \notin notes THEN "OutOfScaleNote"
                       ELSE IF (note(index) % 12) = scale_root THEN "RootNote"
                       ELSE "InScaleNote"
        upto == IF stop = 100 THEN 64 ELSE stop - 35
    IN  [s EXCEPT !.pads = [ index \in PadNotes |->
                                IF index < stop
                                THEN AssignPad(s, @[index], note(index), kind(index))
                                ELSE IF index = stop
                                THEN [@[index] EXCEPT !.filtered = note(index)]
                                ELSE @[index] ],
                  !._fn_pad_map = @ \o [ k \in 1..upto |-> << note(35 + k), 35 + k >> ],
                  !.exception = (stop # 100)]

\* the first loop of set_pad_scale: reset all pad state (in memory)
ResetPads(s) ==
    [s EXCEPT !._fn_pad_map = << >>,
              !.pads = [ nn \in PadNotes |->
                            [ color |-> Black, state |-> "NoTransition",
                              perma_color |-> Black, filtered |-> -1,
                              do_when_pressed |-> "FlashOn" ] ]]

\* the second loop of set_pad_scale: write the state message for every pad
WritePads(s) ==
    [s EXCEPT !.written = @ \o [ i \in 1..64 |-> PadStateMsg(35 + i, s.pads[35 + i]) ]]

\* the tail of set_pad_scale: write the pads and store state (not reached when
\* an exception has left the loops)
StoreScale(s, scale_root, octave, mode, origin, row_interval, inkey) ==
    IF s.exception THEN s
    ELSE [WritePads(s) EXCEPT !._scale_root = scale_root, !._root_octave = octave,
                              !._in_key = inkey, !._mode = mode,
                              !._note_grid_origin = origin,
                              !._row_interval = row_interval]

\* the middle of set_pad_scale: the layout the caller asked for
LayOutPads(s, scale_root, octave, mode, origin, row_interval, inkey) ==
    IF inkey
    THEN set_pad_scale_in_key(s, scale_root, octave, mode, origin,
                              row_interval_semitones(row_interval, inkey))
    ELSE set_pad_scale_chromatic(s, scale_root, octave, mode, origin,
                                 row_interval_semitones(row_interval, inkey))

\* Push2::set_pad_scale
set_pad_scale(s, scale_root, octave, mode, origin, row_interval, inkey) ==
    StoreScale(LayOutPads(ResetPads(Log(s, "set_pad_scale")),
                          scale_root, octave, mode, origin, row_interval, inkey),
               scale_root, octave, mode, origin, row_interval, inkey)

\* a reset_pad_colors that leaves the pads as they are
reset_pad_colors_none(s) == s

\* Push2::reset_pad_colors (and Push2::restore_pad_scale)
reset_pad_colors(s) ==
    set_pad_scale(s, s._scale_root, s._root_octave, s._mode, s._note_grid_origin,
                  s._row_interval, s._in_key)

(***************************************************************************)
(* The colour palette allocator.                                           *)
(***************************************************************************)
\* A 32-bit colour value is held as its four bytes, most significant first.
\* RGB_TO_UINT: (r << 16) | (g << 8) | b
RGB_TO_UINT(r, g, b) == << 0, r, g, b >>

\* an RGBA colour: (r << 24) | (g << 16) | (b << 8) | a
RGBA_TO_UINT(r, g, b, a) == << r, g, b, a >>

\* an assignment to the map that is lost
MapPut_lost(m, key, value) == m

\* a std::map as a function: m[key] = value
MapPut(m, key, value) ==
    [ k \in (DOMAIN m) \cup {key} |-> IF k = key THEN value ELSE m[k] ]

\* Push2::build_color_map: the map of the standard colours ...
StandardColorMap ==
    LET std == { << RGB_TO_UINT(0, 0, 0), 0 >>, << RGB_TO_UINT(204, 204, 204), 122 >>,
                 << RGB_TO_UINT(64, 64, 64), 123 >>, << RGB_TO_UINT(20, 20, 20), 124 >>,
                 << RGB_TO_UINT(0, 0, 255), 125 >>, << RGB_TO_UINT(0, 255, 0), 126 >>,
                 << RGB_TO_UINT(255, 0, 0), 127 >> }
    IN  [ k \in { e[1] : e \in std } |-> (CHOOSE e \in std : e[1] = k)[2] ]

\* a free list that holds the reserved index 122 as well
InitialFreeList_wide == [ n \in 1..122 |-> n ]

\* a free list that lacks index 121
InitialFreeList_short == [ n \in 1..120 |-> n ]

\* ... and the free list: 1 .. 121 pushed in order, so that 121 is on top
InitialFreeList == [ n \in 1..121 |-> n ]

\* a palette message with the channels in one byte each
PaletteMsg_unsplit(index, r, g, b, w) ==
    SysexMsg(<< 240, 0, 33, 29, 1, 1, 3, index, r, 0, g, 0, b, 0, w, 0, 247 >>)

\* the 17-byte "set palette entry" message of get_color_index
PaletteMsg(index, r, g, b, w) ==
    SysexMsg(<< 240, 0, 33, 29, 1, 1, 3,
                index,
                r % 128, (r \div 128) % 2,
                g % 128, (g \div 128) % 2,
                b % 128, (b \div 128) % 2,
                w % 128, ((w \div 128) % 2) * 128,
                247 >>)

UpdatePaletteMsg == SysexMsg(<< 240, 0, 33, 29, 1, 1, 5, 247 >>)

\* Push2::get_color_index.  The index is returned in s.ret; s.rnd holds the
\* values random () returns, consumed in order
get_color_index(s, rgba) ==
    IF rgba \in DOMAIN s._color_map THEN
        [s EXCEPT !.ret = s._color_map[rgba]]
    ELSE
        \* color_to_rgba takes r, g, b from the three high bytes; 255.0 * (x / 255.0)
        \* floors to x for every byte x
        LET r == rgba[1]
            g == rgba[2]
            b == rgba[3]
            w == 126
            empty == Len(s._color_map_free_list) = 0
            index == IF empty
                     THEN 1 + (Head(s.rnd) % 121)
                     ELSE s._color_map_free_list[Len(s._color_map_free_list)]
            s1 == IF empty
                  THEN [s EXCEPT !.rnd = Tail(@)]
                  ELSE [s EXCEPT !._color_map_free_list = SubSeq(@, 1, Len(@) - 1)]
            s2 == write(write(s1, PaletteMsg(index, r, g, b, w)), UpdatePaletteMsg)
        IN  [s2 EXCEPT !._color_map = MapPut(@, rgba, index), !.ret = index]

(***************************************************************************)
(* The selected MIDI track (environment) and the pad target.               *)
(***************************************************************************)
Tracks == { "T1" }

\* presentation_info().color() of a track, as RGBA
TrackColor(t) == IF t = "T1" THEN RGBA_TO_UINT(255, 0, 0, 255)
                ELSE RGBA_TO_UINT(0, 0, 255, 255)

\* Gtkmm2ext::HSV (color).opposite().color()
OppositeColor(t) == IF t = "T1" THEN RGBA_TO_UINT(0, 255, 255, 255)
                   ELSE RGBA_TO_UINT(255, 255, 0, 255)

\* _selection_color = get_color_index (...), the index being in s.ret
SetSelectionColor(s) == [s EXCEPT !._selection_color = s.ret]

\* _contrast_color = get_color_index (...)
SetContrastColor(s) == [s EXCEPT !._contrast_color = s.ret]

\* the colours of the new pad target: the track's and its opposite, or green
PadTargetColors(s, new_pad_target) ==
    IF new_pad_target # "none" THEN
        SetContrastColor(
            get_color_index(
                SetSelectionColor(
                    get_color_index([s EXCEPT !._current_pad_target = new_pad_target],
                                    TrackColor(new_pad_target))),
                OppositeColor(new_pad_target)))
    ELSE
        [s EXCEPT !._current_pad_target = "none",
                  !._selection_color = Green, !._contrast_color = Green]

\* Push2::stripable_selection_changed
stripable_selection_changed(s) ==
    IF s._current_pad_target # s.selected
    THEN reset_pad_colors(PadTargetColors(s, s.selected))
    ELSE s

(***************************************************************************)
(* Layouts.                                                                *)
(***************************************************************************)
Layouts == { "mix", "scale", "track_mix", "cue", "splash" }

\* Push2::set_current_layout ("none" is the null pointer)
set_current_layout(s, layout) ==
    IF layout # "none" /\ layout = s._current_layout THEN s
    ELSE
        LET s1 == IF s._current_layout # "none"
                  THEN [s EXCEPT !._previous_layout = s._current_layout]
                  ELSE s
        IN  [s1 EXCEPT !._current_layout = layout]

\* Push2::splash
splash(s) == [set_current_layout(s, "splash") EXCEPT !._splash_start = s.now]

(***************************************************************************)
(* Push2::begin_using_device                                               *)
(***************************************************************************)
\* a new 40 ms timeout source is connected to vblank and attached; the
\* connection object now refers to it
VblankAttach(s) ==
    Log([s EXCEPT !.timers = @ + 1, !._vblank_connection = TRUE], "timer_attach")

\* Push2::connect_session_signals
connect_session_signals(s) == [s EXCEPT !.session_connections = @ + 1]

\* the end of begin_using_device: the pressure mode is requested and the
\* device is in use (not reached when an exception has left the function)
DeviceInUse(s) ==
    IF s.exception THEN s
    ELSE [request_pressure_mode(s) EXCEPT !._in_use = TRUE, !.ret = 0]

\* splash (); then catch the current selection
SplashAndSelection(s) ==
    IF s.exception THEN s ELSE stripable_selection_changed(splash(s))

\* Push2::begin_using_device
begin_using_device(s) ==
    DeviceInUse(
        SplashAndSelection(
            reset_pad_colors(
                init_touch_strip(
                    init_buttons(
                        connect_session_signals(
                            VblankAttach(Log(s, "begin_using_device"))),
                        TRUE)))))

(***************************************************************************)
(* The handlers.                                                           *)
(***************************************************************************)
\* "connected" taken as either bit set
BothConnected_any(s) == (s._connection_state \cap FullyConnected) # {}

\* (_connection_state & (InputConnected|OutputConnected)) ==
\* (InputConnected|OutputConnected)
BothConnected(s) ==
    (s._connection_state \cap FullyConnected) = FullyConnected

\* the first half of Push2::connection_handler: which of our ports the
\* notification names ("in", "out", or "other" for a port that is not ours)
UpdateConnectionState(s, name, yn) ==
    IF name = "in" THEN
        [s EXCEPT !._connection_state =
                      IF yn THEN @ \cup {InputConnected} ELSE @ \ {InputConnected}]
    ELSE
        [s EXCEPT !._connection_state =
                      IF yn THEN @ \cup {OutputConnected} ELSE @ \ {OutputConnected}]

\* the second half of Push2::connection_handler: both ports connected means
\* device_acquire () and begin_using_device (), anything else stop_using_device ()
UseOrStopDevice(s, open_ok, claim_ok) ==
    IF BothConnected(s)
    THEN begin_using_device(device_acquire(s, open_ok, claim_ok))
    ELSE stop_using_device(s)

\* ConnectionChange (); emit signal for our GUI; return true
ConnectionChange(s) ==
    IF s.exception THEN s ELSE [Log(s, "ConnectionChange") EXCEPT !.ret = 1]

\* Push2::connection_handler
connection_handler(s, name, yn, open_ok, claim_ok) ==
    IF ~s.ports THEN [s EXCEPT !.ret = 0]
    ELSE IF name \notin {"in", "out"} THEN
        \* not our ports
        [s EXCEPT !.ret = 0]
    ELSE
        ConnectionChange(UseOrStopDevice(UpdateConnectionState(s, name, yn),
                                         open_ok, claim_ok))

\* ControlProtocol::set_active
ControlProtocol_set_active(s, yn) == [s EXCEPT !._active = yn]

\* the end of Push2::set_active: ControlProtocol::set_active (yn); return 0
Activated(s, yn) ==
    IF s.exception THEN s ELSE [ControlProtocol_set_active(s, yn) EXCEPT !.ret = 0]

\* if ((_connection_state & (InputConnected|OutputConnected)) == ...)
\*     begin_using_device ();
BeginIfConnected(s) == IF BothConnected(s) THEN begin_using_device(s) ELSE s

\* set_active (true) after device_acquire () has returned (its value in s.ret)
Acquired(s, yn) ==
    IF s.ret # 0 THEN [s EXCEPT !.ret = -1] ELSE Activated(BeginIfConnected(s), yn)

\* set_active that goes on after a failed device_acquire
set_active_ignores_failure(s, yn, open_ok, claim_ok) ==
    IF yn = s._active THEN [s EXCEPT !.ret = 0]
    ELSE
        IF yn
        THEN Activated(BeginIfConnected(device_acquire(s, open_ok, claim_ok)), yn)
        ELSE Activated(s, yn)

\* Push2::set_active
set_active(s, yn, open_ok, claim_ok) ==
    IF yn = s._active THEN [s EXCEPT !.ret = 0]
    ELSE
        IF yn
        THEN Acquired(device_acquire(s, open_ok, claim_ok), yn)
        ELSE Activated(s, yn)

\* Push2::do_request for a request of type Quit
do_request_Quit(s) == stop_using_device(s)

\* Push2::ports_release
ports_release(s) ==
    LET s1 == Log(Log(Log(s, "ports_release"), "drain"), "unregister_port")
    IN  [s1 EXCEPT !.ports = FALSE]

\* a destructor that releases the ports before the device
Destructor_ports_first(s) ==
    LET s1 == device_release(ports_release(stop_using_device(s)))
    IN  [s1 EXCEPT !._current_layout = "none"]

\* Push2::~Push2
Destructor(s) ==
    LET s1 == ports_release(device_release(stop_using_device(s)))
    IN  [s1 EXCEPT !._current_layout = "none"]

(***************************************************************************)
(* The realtime note filter and the MIDI input handler.  An event of a     *)
(* MidiBuffer is a record: its type, its note (or first data byte) and its *)
(* velocity (or second data byte).                                         *)
(***************************************************************************)
Event(type, note, velocity) == [ type |-> type, note |-> note, velocity |-> velocity ]

\* only a Note-On is taken as a note
IsNote_on(ev) == ev.type = "NoteOn"

\* (*ev).is_note_on() || (*ev).is_note_off()
IsNote(ev) == ev.type \in {"NoteOn", "NoteOff"}

\* no event is a pitch-bend or a pressure event
IsBenderOrPressure_none(ev) == FALSE

\* (*ev).is_pitch_bender() || (*ev).is_poly_pressure() || (*ev).is_channel_pressure()
IsBenderOrPressure(ev) == ev.type \in {"PitchBend", "PolyPressure", "ChannelPressure"}

\* no note is in the range of the pads
IsPadRange_none(ev) == FALSE

\* encoder touch start/touch end use note 0-10, the touchstrip uses note 12
IsPadRange(ev) == ev.note > 10 /\ ev.note # 12

\* what the body of the loop of pad_filter appends to out for one event
Filtered(s, ev) ==
    IF IsNote(ev) THEN
        IF IsPadRange(ev) THEN
            IF ev.note \in DOMAIN s.pads THEN
                IF s.pads[ev.note].filtered >= 0
                THEN \* shift for output to the shadow port
                     << [ev EXCEPT !.note = s.pads[ev.note].filtered
                                               + (s._octave_shift * 12)] >>
                ELSE \* no mapping, don't send event
                     << >>
            ELSE << ev >>
        ELSE << >>
    ELSE IF IsBenderOrPressure(ev) THEN << ev >>
    ELSE << >>

\* the loop of pad_filter from event i of the block on
RECURSIVE FilterLoop(_, _, _)
FilterLoop(s, in, i) ==
    IF i > Len(in) THEN << >>
    ELSE Filtered(s, in[i]) \o FilterLoop(s, in, i + 1)

\* pad_filter without the test for the cue layout
pad_filter_nocue(s, in) ==
    [s EXCEPT !.out = FilterLoop(s, in, 1),
              !.ret = IF \E i \in 1..Len(in) : IsNote(in[i]) /\ IsPadRange(in[i])
                      THEN 1 ELSE 0]

\* Push2::pad_filter: the events appended to out are in s.out, the result
\* (matched) in s.ret
pad_filter(s, in) ==
    IF s._current_layout = "cue" THEN [s EXCEPT !.ret = 0]
    ELSE [s EXCEPT !.out = FilterLoop(s, in, 1),
                   !.ret = IF \E i \in 1..Len(in) : IsNote(in[i]) /\ IsPadRange(in[i])
                           THEN 1 ELSE 0]

\* Push2::midi_input_handler; parsing dispatches the incoming MIDI to the
\* pad, button and sysex handlers
midi_input_handler(s, ioc) ==
    IF ioc # "IO_IN" THEN
        \* MIDI port closed
        [s EXCEPT !.ret = 0]
    ELSE IF s._in_use THEN [Log(s, "parse") EXCEPT !.ret = 1]
    ELSE [s EXCEPT !.ret = 1]

(***************************************************************************)
(* The handlers the parser calls for the messages of the device.           *)
(***************************************************************************)
\* a header test that takes every message
compare_n_any(a, b, n) == TRUE

\* MidiByteArray::compare_n: the first n bytes of the two are the same
compare_n(a, b, n) ==
    \A i \in 1..n : (i <= Len(a) /\ i <= Len(b)) => a[i] = b[i]

\* Push2::handle_midi_sysex (msg[k] of the source is msg[k + 1])
handle_midi_sysex(s, msg) ==
    IF Len(msg) < 8 THEN s
    ELSE IF ~compare_n(<< 240, 0, 33, 29, 1, 1 >>, msg, 6) THEN s
    ELSE IF msg[7] = 31 THEN
        \* pressure mode
        IF msg[8] = 0
        THEN Log([s EXCEPT !._pressure_mode = "AfterTouch"], "PressureModeChange:AfterTouch")
        ELSE Log([s EXCEPT !._pressure_mode = "PolyPressure"], "PressureModeChange:PolyPressure")
    ELSE s

\* the pads of _fn_pad_map.equal_range (note), in the map's order
PadsWithNote(s, note) ==
    LET found == { k \in 1..Len(s._fn_pad_map) : s._fn_pad_map[k][1] = note }
        nth(j) == CHOOSE k \in found : Cardinality({ h \in found : h < k }) = j - 1
    IN  [ j \in 1..Cardinality(found) |-> s._fn_pad_map[nth(j)][2] ]

\* the loops over pads_with_note: every pad gets its color, color[pad],
\* and state NoTransition, and its state message is written
LightPads(s, hit, color) ==
    [s EXCEPT !.pads = [ nn \in PadNotes |->
                            IF \E j \in 1..Len(hit) : hit[j] = nn
                            THEN [@[nn] EXCEPT !.color = color[nn],
                                               !.state = "NoTransition"]
                            ELSE @[nn] ],
              !.written = @ \o [ j \in 1..Len(hit) |->
                                   PadStateMsg(hit[j],
                                               [s.pads[hit[j]] EXCEPT
                                                   !.color = color[hit[j]],
                                                   !.state = "NoTransition"]) ]]

\* Push2::handle_midi_note_off_message
handle_midi_note_off_message(s, ev) ==
    IF ev.note < 11 THEN s
    ELSE IF ev.note \notin PadNotes THEN s
    ELSE IF s._current_layout = "cue" THEN Log(s, "pad_release")
    ELSE LightPads(s, PadsWithNote(s, s.pads[ev.note].filtered),
                   [ nn \in PadNotes |-> s.pads[nn].perma_color ])

\* the switch of handle_midi_note_on_message: encoder touches and the touch
\* strip
TouchControls(s, ev) ==
    IF ev.note \in 0..7 THEN Log(s, "strip_vpot_touch")
    ELSE IF ev.note \in 8..10 THEN Log(s, "other_vpot_touch")
    ELSE IF ev.note = 12 /\ ev.velocity < 64 THEN Log(s, "transport_stop")
    ELSE s

\* the rest of handle_midi_note_on_message: pad illuminations
PadPressed(s, ev) ==
    IF ev.note < 11 THEN s
    ELSE IF ev.note \notin PadNotes THEN s
    ELSE IF s._current_layout = "cue" THEN Log(s, "pad_press")
    ELSE LightPads(s, PadsWithNote(s, s.pads[ev.note].filtered),
                   [ nn \in PadNotes |->
                       IF s.pads[nn].do_when_pressed = "FlashOn" THEN s._contrast_color
                       ELSE IF s.pads[nn].do_when_pressed = "FlashOff" THEN Black
                       ELSE s.pads[nn].color ])

\* Push2::handle_midi_note_on_message, which connect_to_parser connects to
\* the parser's note_on and to its note_off
handle_midi_note_on_message(s, ev) ==
    IF ev.velocity = 0 THEN handle_midi_note_off_message(s, ev)
    ELSE PadPressed(TouchControls(s, ev), ev)

(***************************************************************************)
(* Saving and restoring.  A node is a function from property names to      *)
(* strings; a number is written as its decimal digits, a bool as 1 or 0, a *)
(* mode by the name of its enumerator.                                     *)
(***************************************************************************)
\* PBD::to_string for an int that is not negative: its decimal digits
RECURSIVE int_to_string(_)
int_to_string(n) ==
    IF n < 10 THEN << n >>
    ELSE Append(int_to_string(n \div 10), n % 10)

\* PBD::string_to for an int: the value of the digits
RECURSIVE string_to_int(_)
string_to_int(str) ==
    IF Len(str) = 0 THEN 0
    ELSE (10 * string_to_int(SubSeq(str, 1, Len(str) - 1))) + str[Len(str)]

\* a conversion that knows yes and no only
string_to_bool_yes(str) == str = "yes"

\* PBD::string_to for a bool
string_to_bool(str) == str \in {"1", "y", "Y", "yes", "true"}

\* Push2::get_state: the node returned, with a property of
\* ControlProtocol::get_state and the four of the driver
get_state(s) ==
    [ name \in {"feedback", "root", "root-octave", "in-key", "mode"} |->
        CASE name = "feedback"    -> "0"
          [] name = "root"        -> int_to_string(s._scale_root)
          [] name = "root-octave" -> int_to_string(s._root_octave)
          [] name = "in-key"      -> IF s._in_key THEN "1" ELSE "0"
          [] name = "mode"        -> s._mode ]

\* Push2::set_state.  ControlProtocol::set_state succeeds
set_state(s, node) ==
    [Log(s, "ControlProtocol::set_state") EXCEPT
        !._scale_root = IF "root" \in DOMAIN node THEN string_to_int(node["root"]) ELSE @,
        !._root_octave = IF "root-octave" \in DOMAIN node
                         THEN string_to_int(node["root-octave"]) ELSE @,
        !._in_key = IF "in-key" \in DOMAIN node THEN string_to_bool(node["in-key"]) ELSE @,
        !._mode = IF "mode" \in DOMAIN node THEN node["mode"] ELSE @,
        !.ret = 0]

(***************************************************************************)
(* The state after Push2::Push2.  libusb's handles belong to the process,  *)
(* not to the instance.                                                    *)
(***************************************************************************)
Constructed(origin, sel, nopen, claimed) ==
    [ _handle |-> 0, usb_open |-> nopen, usb_claimed |-> claimed,
      _in_use |-> FALSE, _connection_state |-> {}, _active |-> FALSE,
      timers |-> 0, _vblank_connection |-> FALSE, session_connections |-> 0,
      ports |-> TRUE,
      buttons |-> [ id \in ButtonSet |-> NewButton ],
      pads |-> [ nn \in PadNotes |-> NewPad(nn) ],
      _fn_pad_map |-> << >>,
      _mode |-> "IonianMajor",
      \* the constructor leaves _note_grid_origin uninitialised
      _note_grid_origin |-> origin,
      _row_interval |-> "Fourth", _scale_root |-> 0, _root_octave |-> 3,
      _in_key |-> TRUE, _octave_shift |-> 0, _percussion |-> FALSE,
      _selection_color |-> Green, _contrast_color |-> Green,
      _current_layout |-> "none", _previous_layout |-> "none", _splash_start |-> 0,
      _current_pad_target |-> "none", selected |-> sel,
      _color_map |-> StandardColorMap, _color_map_free_list |-> InitialFreeList,
      _pressure_mode |-> "AfterTouch", now |-> 1,
      written |-> << >>, calls |-> << >>, ret |-> 0, out |-> << >>,
      exception |-> FALSE, rnd |-> << >> ]

\* the state a handler leaves becomes the next state
CommitDriver(s) ==
    /\ _handle' = s._handle
    /\ usb_open' = s.usb_open
    /\ usb_claimed' = s.usb_claimed
    /\ _in_use' = s._in_use
    /\ _connection_state' = s._connection_state
    /\ _active' = s._active
    /\ timers' = s.timers
    /\ _vblank_connection' = s._vblank_connection
    /\ session_connections' = s.session_connections
    /\ ports' = s.ports
    /\ buttons' = s.buttons
    /\ pads' = s.pads
    /\ _fn_pad_map' = s._fn_pad_map
    /\ _mode' = s._mode
    /\ _note_grid_origin' = s._note_grid_origin
    /\ _row_interval' = s._row_interval
    /\ _scale_root' = s._scale_root
    /\ _root_octave' = s._root_octave
    /\ _in_key' = s._in_key
    /\ _octave_shift' = s._octave_shift
    /\ _percussion' = s._percussion
    /\ _selection_color' = s._selection_color
    /\ _contrast_color' = s._contrast_color
    /\ _current_layout' = s._current_layout
    /\ _previous_layout' = s._previous_layout
    /\ _splash_start' = s._splash_start
    /\ _current_pad_target' = s._current_pad_target
    /\ selected' = s.selected
    /\ _color_map' = s._color_map
    /\ _color_map_free_list' = s._color_map_free_list
    /\ _pressure_mode' = s._pressure_mode
    /\ now' = s.now
    /\ written' = s.written
    /\ calls' = s.calls
    /\ ret' = s.ret
    /\ out' = s.out

\* a handler run as one step leaves the steps in progress alone
Commit(s) == CommitDriver(s) /\ UNCHANGED rt

\* a handler leaves its state behind; an exception that leaves it is caught
\* nowhere in the driver and terminates the process.  The timeout sources
\* attached to the main loop are counted up to MaxTimers
Done(s) ==
    /\ s.timers <= MaxTimers
    /\ Commit(s)
    /\ phase' = IF s.exception THEN "terminated" ELSE phase

\* what ran last: the handler, its arguments, and where it started
Summary(op, port, yn) ==
    [ op |-> op, port |-> port, yn |-> yn,
      pre_conn |-> _connection_state, pre_in_use |-> _in_use, pre_handle |-> _handle,
      pre_active |-> _active, cfg |-> << >> ]

Record(h) == last' = h

\* the outcomes of libusb_open_device_with_vid_pid and libusb_claim_interface,
\* drawn when device_acquire would open the device
UsbOutcomes ==
    IF _handle # 0 THEN { << TRUE, TRUE >> }
    ELSE { << TRUE, TRUE >>, << FALSE, TRUE >>, << TRUE, FALSE >> }

\* the values random () returns to a handler, drawn when the free list cannot
\* serve the two colours a handler may allocate
RandomDraws == IF Len(_color_map_free_list) >= 2 THEN { << 0, 0 >> }
               ELSE { << a, b >> : a \in {0, 120}, b \in {0, 120} }

OriginValues == { "Fixed", "Rooted" }

\* no scale recomputation and no filter run is in progress
RtIdle == [ writer |-> "idle", k |-> 0, cfg |-> << >>, before |-> << >>,
            after |-> << >>, reader |-> "idle", input |-> << >>, pos |-> 0 ]

\* the variables hold the state s
InitFrom(s) ==
    /\ _handle = s._handle
    /\ usb_open = s.usb_open
    /\ usb_claimed = s.usb_claimed
    /\ _in_use = s._in_use
    /\ _connection_state = s._connection_state
    /\ _active = s._active
    /\ timers = s.timers
    /\ _vblank_connection = s._vblank_connection
    /\ session_connections = s.session_connections
    /\ ports = s.ports
    /\ buttons = s.buttons
    /\ pads = s.pads
    /\ _fn_pad_map = s._fn_pad_map
    /\ _mode = s._mode
    /\ _note_grid_origin = s._note_grid_origin
    /\ _row_interval = s._row_interval
    /\ _scale_root = s._scale_root
    /\ _root_octave = s._root_octave
    /\ _in_key = s._in_key
    /\ _octave_shift = s._octave_shift
    /\ _percussion = s._percussion
    /\ _selection_color = s._selection_color
    /\ _contrast_color = s._contrast_color
    /\ _current_layout = s._current_layout
    /\ _previous_layout = s._previous_layout
    /\ _splash_start = s._splash_start
    /\ _current_pad_target = s._current_pad_target
    /\ selected = s.selected
    /\ _color_map = s._color_map
    /\ _color_map_free_list = s._color_map_free_list
    /\ _pressure_mode = s._pressure_mode
    /\ now = s.now
    /\ written = s.written
    /\ calls = s.calls
    /\ ret = s.ret
    /\ out = s.out
    /\ rt = RtIdle

InitLast == [ op |-> "constructor", port |-> "", yn |-> FALSE, pre_conn |-> {},
              pre_in_use |-> FALSE, pre_handle |-> 0, pre_active |-> FALSE,
              cfg |-> << >> ]

Init ==
    /\ phase = "alive"
    /\ last = InitLast
    /\ \E origin \in OriginValues, sel \in {"none"} \cup Tracks :
         InitFrom(Constructed(origin, sel, 0, FALSE))

(***************************************************************************)
(* The actions: one per handler.                                           *)
(***************************************************************************)
\* a PortConnectedOrDisconnected notification
ConnectionHandler ==
    /\ phase = "alive"
    /\ \E name \in {"in", "out", "other"}, yn \in BOOLEAN,
          usb \in UsbOutcomes, rnd \in RandomDraws :
         /\ Done(connection_handler([Cur EXCEPT !.rnd = rnd], name, yn,
                                    usb[1], usb[2]))
         /\ Record(Summary("connection_handler", name, yn))

\* the control protocol manager activates (or deactivates) the surface
SetActive ==
    /\ phase = "alive"
    /\ \E yn \in BOOLEAN, usb \in UsbOutcomes, rnd \in RandomDraws :
         /\ Done(set_active([Cur EXCEPT !.rnd = rnd], yn, usb[1], usb[2]))
         /\ Record(Summary("set_active", "", yn))

\* a Quit request reaches the event loop
Quit ==
    /\ phase = "alive"
    /\ LET s == do_request_Quit(Cur)
       IN  /\ Commit(s)
           /\ Record(Summary("do_request", "", FALSE))
    /\ UNCHANGED phase

\* the blocks the realtime thread hands to the filter between the handlers:
\* a pad's Note-On, a pad's Note-Off, a pitch-bend, and two pads' notes
PadBlocks == { << Event("NoteOn", 36, 100) >>, << Event("NoteOff", 99, 0) >>,
               << Event("PitchBend", 0, 64) >>,
               << Event("NoteOn", 36, 100), Event("NoteOn", 37, 100) >> }

\* the realtime thread runs the filter on a block
PadFilter ==
    /\ phase = "alive"
    /\ \E in \in PadBlocks :
         /\ Done(pad_filter(Cur, in))
         /\ Record([Summary("pad_filter", "", FALSE) EXCEPT !.cfg = in])

\* the input port has data, or is closed
MidiInputHandler ==
    /\ phase = "alive"
    /\ \E ioc \in {"IO_IN", "IO_HUP"} :
         /\ Done(midi_input_handler(Cur, ioc))
         /\ Record(Summary("midi_input_handler", ioc, FALSE))

\* the selection changes and the surface is told
StripableSelectionChanged ==
    /\ phase = "alive"
    /\ \E t \in {"none"} \cup Tracks, rnd \in RandomDraws :
         /\ Done(stripable_selection_changed([Cur EXCEPT !.selected = t,
                                                          !.rnd = rnd]))
         /\ Record(Summary("stripable_selection_changed", "", FALSE))

\* the surface is torn down
Destroy ==
    /\ phase = "alive"
    /\ LET s == Destructor(Cur)
       IN  /\ Commit(s)
           /\ Record(Summary("destructor", "", FALSE))
    /\ phase' = "destroyed"

\* the control protocol manager instantiates the surface again
Construct ==
    /\ phase = "destroyed"
    /\ \E origin \in OriginValues :
         LET s == Constructed(origin, selected, usb_open, usb_claimed)
         IN  /\ Commit(s)
             /\ Record(Summary("constructor", "", FALSE))
    /\ phase' = "alive"

(***************************************************************************)
(* The scale mapper on its own: set_pad_scale for every ScaleConfig.       *)
(***************************************************************************)
\* the valid scale configurations: root 0..11, octave 0..10, every mode, both
\* origins, every row interval, in key or chromatic
ScaleConfigs ==
    [ scale_root : 0..11, octave : 0..10, mode : Modes, origin : OriginValues,
      row_interval : {"Third", "Fourth", "Fifth", "Sequential"}, inkey : BOOLEAN ]

ScaleInit ==
    /\ phase = "alive"
    /\ last = InitLast
    /\ \E origin \in OriginValues : InitFrom(Constructed(origin, "none", 0, FALSE))

\* the scale layout sets a scale, one of configs.  set_pad_scale resets every
\* pad before it lays the pads out, so what it leaves does not depend on the
\* pads before: it is applied to the constructed driver
SetPadScaleOf(configs) ==
    /\ phase = "alive"
    /\ last.op = "constructor"
    /\ \E c \in configs :
         /\ Done(set_pad_scale(Cur, c.scale_root, c.octave, c.mode, c.origin,
                               c.row_interval, c.inkey))
         /\ Record([Summary("set_pad_scale", "", c.inkey) EXCEPT !.cfg = c])

SetPadScale == SetPadScaleOf(ScaleConfigs)

\* Push2::restore_pad_scale: the stored scale is laid out again
RestorePadScale ==
    /\ phase = "alive"
    /\ Done(reset_pad_colors(Cur))
    /\ Record([Summary("restore_pad_scale", "", _in_key) EXCEPT
                  !.cfg = [ scale_root |-> _scale_root, octave |-> _root_octave,
                            mode |-> _mode, origin |-> _note_grid_origin,
                            row_interval |-> _row_interval, inkey |-> _in_key ]])

ScaleNext == SetPadScale \/ RestorePadScale

ScaleSpec == ScaleInit /\ [][ScaleNext]_vars

(***************************************************************************)
(* The realtime note filter on its own: pad_filter for blocks of events,   *)
(* under pad mappings with and without unmapped pads, octave shifts and    *)
(* layouts.                                                                *)
(***************************************************************************)
\* the longest block handed to the filter
MaxBlock == 2

\* the octave shifts the octave buttons leave
OctaveShifts == { -1, 0, 2 }

\* a pad's Note-On and Note-Off, a note in the pads' range that is no pad,
\* and the events the filter passes through
FilterEvents ==
    { Event("NoteOn", 36, 100), Event("NoteOff", 99, 0), Event("NoteOn", 100, 1),
      Event("PitchBend", 0, 64), Event("PolyPressure", 36, 9),
      Event("ChannelPressure", 7, 0) }

FilterBlocks ==
    UNION { [ 1..n -> FilterEvents ] : n \in 0..MaxBlock }

\* a scale in key whose top rows run past note 127, and a chromatic scale
FilterScales ==
    { c \in ScaleConfigs :
        /\ c.scale_root = 5 /\ c.mode = "Dorian" /\ c.row_interval = "Fifth"
        /\ \/ c.inkey /\ c.octave = 8 /\ c.origin = "Rooted"
           \/ ~c.inkey /\ c.octave = 3 /\ c.origin = "Fixed" }

FilterInit ==
    /\ phase = "alive"
    /\ last = InitLast
    /\ \E shift \in OctaveShifts :
         InitFrom([Constructed("Fixed", "none", 0, FALSE) EXCEPT !._octave_shift = shift])

\* a button handler shows another layout
SetCurrentLayout ==
    /\ phase = "alive"
    /\ \E layout \in {"cue", "mix"} :
         /\ layout # _current_layout
         /\ Done(set_current_layout(Cur, layout))
         /\ Record(Summary("set_current_layout", layout, FALSE))

\* the realtime thread runs the filter on a block
PadFilterBlock ==
    /\ phase = "alive"
    /\ \E in \in FilterBlocks :
         /\ Done(pad_filter(Cur, in))
         /\ Record([Summary("pad_filter", "", FALSE) EXCEPT !.cfg = in])

FilterNext == SetPadScaleOf(FilterScales) \/ SetCurrentLayout \/ PadFilterBlock

FilterSpec == FilterInit /\ [][FilterNext]_vars

(***************************************************************************)
(* set_pad_scale on the dispatcher thread while the realtime thread runs   *)
(* pad_filter.  Neither takes a lock and Pad::filtered is a plain int: the *)
(* two run interleaved, one store to a pad and one lookup of a pad at a    *)
(* time.  _fn_pad_map, which the filter does not read, is filled in at the *)
(* end of the layout.                                                      *)
(***************************************************************************)
\* the driver between two steps: what the filter has appended and matched so
\* far stays
Mid == [Cur EXCEPT !.out = out, !.ret = ret]

\* set_pad_scale is entered: the pad map is cleared, the first loop starts
SetPadScaleBegin ==
    /\ phase = "alive"
    /\ rt.writer = "idle"
    /\ \E c \in FilterScales :
         /\ CommitDriver([Mid EXCEPT !._fn_pad_map = ResetPads(Mid)._fn_pad_map])
         /\ rt' = [rt EXCEPT !.writer = "clearing", !.k = 1, !.cfg = c,
                             !.before = pads,
                             !.after = set_pad_scale(Mid, c.scale_root, c.octave, c.mode,
                                                     c.origin, c.row_interval, c.inkey).pads]
         /\ Record([Summary("set_pad_scale_begin", "", c.inkey) EXCEPT !.cfg = c])
    /\ UNCHANGED phase

\* set_pad_scale resets one pad (first loop) or lays one pad out (the layout
\* loop); with the last pad laid out it writes the pads and stores the scale
SetPadScaleStep ==
    /\ phase = "alive"
    /\ rt.writer \in {"clearing", "laying"}
    /\ IF rt.writer = "clearing"
       THEN /\ CommitDriver([Mid EXCEPT !.pads[PadOrder[rt.k]] = ResetPads(Mid).pads[PadOrder[rt.k]]])
            /\ rt' = IF rt.k < 64 THEN [rt EXCEPT !.k = @ + 1]
                                  ELSE [rt EXCEPT !.writer = "laying", !.k = 1]
       ELSE IF rt.k < 64
       THEN /\ CommitDriver([Mid EXCEPT !.pads[PadOrder[rt.k]] = rt.after[PadOrder[rt.k]]])
            /\ rt' = [rt EXCEPT !.k = @ + 1]
       ELSE /\ CommitDriver(set_pad_scale(Mid, rt.cfg.scale_root, rt.cfg.octave, rt.cfg.mode,
                                         rt.cfg.origin, rt.cfg.row_interval, rt.cfg.inkey))
            /\ rt' = [rt EXCEPT !.writer = "done"]
    /\ Record([Summary("set_pad_scale_step", "", FALSE) EXCEPT !.cfg = rt.cfg])
    /\ UNCHANGED phase

\* the realtime thread enters pad_filter with a block
PadFilterBegin ==
    /\ phase = "alive"
    /\ rt.reader = "idle"
    /\ \E in \in PadBlocks :
         /\ CommitDriver(Cur)
         /\ rt' = [rt EXCEPT !.reader = IF _current_layout = "cue" THEN "idle" ELSE "running",
                             !.input = in, !.pos = 0]
         /\ Record([Summary("pad_filter_begin", "", FALSE) EXCEPT !.cfg = in])
    /\ UNCHANGED phase

\* pad_filter handles the next event of its block, looking the pad up as it
\* is now; after the last event it returns
PadFilterStep ==
    /\ phase = "alive"
    /\ rt.reader = "running"
    /\ CommitDriver([Mid EXCEPT !.out = @ \o Filtered(Mid, rt.input[rt.pos + 1]),
                                !.ret = IF IsNote(rt.input[rt.pos + 1]) /\ IsPadRange(rt.input[rt.pos + 1])
                                        THEN 1 ELSE @])
    /\ rt' = [rt EXCEPT !.pos = @ + 1,
                        !.reader = IF rt.pos + 1 = Len(rt.input) THEN "idle" ELSE "running"]
    /\ Record([Summary(IF rt.pos + 1 = Len(rt.input) THEN "pad_filter" ELSE "pad_filter_step",
                       "", FALSE) EXCEPT !.cfg = rt.input])
    /\ UNCHANGED phase

RaceNext == SetPadScaleBegin \/ SetPadScaleStep \/ PadFilterBegin \/ PadFilterStep

RaceSpec == ScaleInit /\ [][RaceNext]_vars

(***************************************************************************)
(* The color allocator on its own: get_color_index for colors new to the   *)
(* cache and colors it holds, until the free list is used up and beyond.   *)
(***************************************************************************)
\* the number of distinct colors asked for
MaxColors == 123

\* the k-th color: red channels below and above 128
Color(k) == RGBA_TO_UINT(100 + k, 255 - k, k, 255)

\* the colors in the cache besides the seven standard ones
CustomColors == Cardinality(DOMAIN _color_map) - 7

\* the colors asked for: the next new one, the one before it, the first,
\* and two of the standard colors
ColorRequests ==
    { Color(k) : k \in {1, CustomColors, CustomColors + 1} \cap 1..MaxColors }
    \cup { RGB_TO_UINT(0, 0, 0), RGB_TO_UINT(0, 0, 255) }

\* a layout asks for the palette index of a color
GetColorIndex ==
    /\ phase = "alive"
    /\ \E rgba \in ColorRequests, rnd \in RandomDraws :
         /\ Done(get_color_index([Cur EXCEPT !.rnd = rnd], rgba))
         /\ Record([Summary("get_color_index", "", rgba \in DOMAIN _color_map)
                      EXCEPT !.cfg = [ rgba |-> rgba,
                                       again |-> last.op = "get_color_index"
                                                 /\ last.cfg.rgba = rgba,
                                       pre_ret |-> ret, pre_map |-> _color_map,
                                       pre_free |-> _color_map_free_list ]])

ColorSpec == ScaleInit /\ [][GetColorIndex]_vars

(***************************************************************************)
(* The messages of the device, handled while the device is in use.         *)
(***************************************************************************)
\* the driver once it is active and both ports are connected
InputInit ==
    /\ phase = "alive"
    /\ last = InitLast
    /\ \E origin \in OriginValues :
         InitFrom(connection_handler(
                      connection_handler(
                          set_active(Constructed(origin, "none", 0, FALSE), TRUE, TRUE, TRUE),
                          "in", TRUE, TRUE, TRUE),
                      "out", TRUE, TRUE, TRUE))

\* System-Exclusive messages: the pressure-mode reply with its header and its
\* command byte right or wrong, and what is left of it when it is cut short
SysexInputs ==
    { SubSeq(<< 240, a, 33, b, 1, 1, c, d, 247 >>, 1, n) :
        a \in {0, 1}, b \in {29, 30}, c \in {31, 30}, d \in {0, 1, 127}, n \in 6..9 }

\* notes of an encoder, the touch strip and three pads, on and off
NoteInputs ==
    { Event(type, note, velocity) :
        type \in {"NoteOn", "NoteOff"}, note \in {5, 12, 36, 44, 99}, velocity \in {0, 64, 100} }

\* the parser hands a System-Exclusive message to the driver
HandleMidiSysex ==
    /\ phase = "alive" /\ _in_use
    /\ \E msg \in SysexInputs :
         /\ Done(handle_midi_sysex(Cur, msg))
         /\ Record([Summary("handle_midi_sysex", "", FALSE)
                      EXCEPT !.cfg = [ msg |-> msg, pre_mode |-> _pressure_mode ]])

\* the parser hands a Note-On or a Note-Off to the driver
HandleMidiNote ==
    /\ phase = "alive" /\ _in_use
    /\ \E ev \in NoteInputs :
         /\ Done(handle_midi_note_on_message(Cur, ev))
         /\ Record([Summary("handle_midi_note", "", FALSE) EXCEPT !.cfg = ev])

InputSpec ==
    InputInit
    /\ [][SetPadScaleOf(FilterScales) \/ SetCurrentLayout \/ HandleMidiSysex
           \/ HandleMidiNote]_vars

(***************************************************************************)
(* Saving the scale and restoring it into a driver with another scale.     *)
(***************************************************************************)
\* the node get_state gives for a driver with the scalars c, without the
\* properties in missing
SavedNode(c, missing) ==
    LET node == get_state([Cur EXCEPT !._scale_root = c.root, !._root_octave = c.octave,
                                      !._in_key = c.inkey, !._mode = c.mode])
    IN  [ name \in (DOMAIN node) \ missing |-> node[name] ]

\* the session saves the surface's state
GetState ==
    /\ phase = "alive"
    /\ last.op # "get_state"
    /\ Done(Cur)
    /\ Record([Summary("get_state", "", FALSE) EXCEPT !.cfg = get_state(Cur)])

\* the session restores a saved state
SetState ==
    /\ phase = "alive"
    /\ \E c \in [ root : {0, 11}, octave : {3, 10}, inkey : BOOLEAN,
                   mode : {"IonianMajor", "Chromatic"} ],
          missing \in { {}, {"root"}, {"root-octave"}, {"in-key"}, {"mode"},
                        {"root", "root-octave", "in-key", "mode"} } :
         /\ Done(set_state(Cur, SavedNode(c, missing)))
         /\ Record([Summary("set_state", "", FALSE)
                      EXCEPT !.cfg = [ saved |-> c, missing |-> missing,
                                       pre |-> [ root |-> _scale_root, octave |-> _root_octave,
                                                 inkey |-> _in_key, mode |-> _mode ] ]])

StateSpec == ScaleInit /\ [][GetState \/ SetState]_vars

(***************************************************************************)
(* Ports coming and going under a scale set while the device was in use.   *)
(***************************************************************************)
ReconnectSpec == InputInit /\ [][SetPadScaleOf(FilterScales) \/ ConnectionHandler]_vars

Next ==
    \/ ConnectionHandler
    \/ SetActive
    \/ Quit
    \/ PadFilter
    \/ MidiInputHandler
    \/ Destroy
    \/ Construct

Spec == Init /\ [][Next]_vars


(***************************************************************************)
(* Properties.  `last` names the handler that ran last and the state it    *)
(* started from; `calls` and `written` hold what that handler called and   *)
(* wrote.                                                                  *)
(***************************************************************************)
\* position of the first e in seq, 0 when there is none
Pos(seq, e) ==
    IF \E i \in 1..Len(seq) : seq[i] = e
    THEN CHOOSE i \in 1..Len(seq) : seq[i] = e /\ \A h \in 1..(i - 1) : seq[h] # e
    ELSE 0

\* the last handler was connection_handler for one of our two ports
PortNotified == last.op = "connection_handler" /\ last.port \in {"in", "out"}

\* C1: starting Disconnected and not in use, the notification that the input
\* port is connected sets only the input bit and begins nothing; the
\* notification that the output port is connected, received next, leaves both
\* bits set and has run begin_using_device exactly once.
C1_InputThenOutputBeginsOnce ==
    /\ (/\ PortNotified /\ last.port = "in" /\ last.yn
        /\ last.pre_conn = {} /\ ~last.pre_in_use)
       => /\ _connection_state = {InputConnected}
          /\ ~_in_use
          /\ Count(calls, "begin_using_device") = 0
    /\ (/\ PortNotified /\ last.port = "out" /\ last.yn
        /\ last.pre_conn = {InputConnected} /\ ~last.pre_in_use)
       => /\ _connection_state = FullyConnected
          /\ Count(calls, "begin_using_device") = 1

\* the output port has just been connected after the input port
C1_Witness ==
    /\ PortNotified /\ last.port = "out" /\ last.yn
    /\ last.pre_conn = {InputConnected} /\ ~last.pre_in_use
    /\ _connection_state = FullyConnected
    /\ _in_use
    /\ timers = 1

\* C2: a notification that repeats the connection state already recorded for
\* its port is a no-op: no begin_using_device, no teardown, no timer attached,
\* nothing written.
C2_RepeatedNotificationIsNoOp ==
    (PortNotified /\ _connection_state = last.pre_conn)
    => /\ Count(calls, "begin_using_device") = 0
       /\ Count(calls, "teardown") = 0
       /\ Count(calls, "timer_attach") = 0
       /\ written = << >>

\* the last handler was connection_handler for a disconnect of one of our ports
PortDisconnected == PortNotified /\ ~last.yn

\* every pad and every button is black, and a black state message has been
\* written for every pad
BlackedOut ==
    /\ \A nn \in PadNotes : pads[nn].color = Black /\ pads[nn].state = "NoTransition"
    /\ \A id \in ButtonSet : buttons[id].color = Black
    /\ \A nn \in PadNotes :
         \E i \in 1..Len(written) :
            /\ written[i].kind = "pad" /\ written[i].pad = nn
            /\ written[i].color = Black /\ written[i].status = 144

\* C3: from the fully connected, in-use state a disconnect of either port runs
\* the stop teardown exactly once (LEDs off, timer disconnected, not in use);
\* a disconnect received while the device is not in use runs it zero times.
C3_DisconnectTearsDownOnce ==
    /\ (PortDisconnected /\ last.pre_in_use /\ last.pre_conn = FullyConnected)
       => /\ Count(calls, "teardown") = 1
          /\ ~_in_use
          /\ ~_vblank_connection
          /\ session_connections = 0
          /\ BlackedOut
    /\ (PortDisconnected /\ ~last.pre_in_use)
       => /\ Count(calls, "teardown") = 0
          /\ written = << >>
          /\ ~_in_use

\* the second port is disconnected after the device was begun and stopped
C3_Witness ==
    /\ PortDisconnected /\ ~last.pre_in_use
    /\ last.pre_conn # {} /\ _connection_state = {}
    /\ _current_layout = "splash"
    /\ Count(calls, "stop_using_device") = 1

\* C4 as stated: in every reachable state the device is in use exactly when
\* both connection bits are set.
C4_InUseIffBothConnected ==
    phase = "alive" => (_in_use <=> (_connection_state = FullyConnected))

\* both bits are set and the device is not in use
ConnectedNotInUse(conn, in_use) == conn = FullyConnected /\ ~in_use

\* C4, amended: the device is in use only when both connection bits are set;
\* and the state "both bits set, device not in use" is entered only by a Quit
\* request, which stops the device and leaves the bits alone.
C4_InUseOnlyWhenBothConnected ==
    /\ [](_in_use => _connection_state = FullyConnected)
    /\ [][ (phase' = "alive" /\ ConnectedNotInUse(_connection_state', _in_use'))
           => \/ last'.op = "do_request"
              \/ (phase = "alive" /\ ConnectedNotInUse(_connection_state, _in_use))
         ]_vars

\* a Quit request has stopped the device while both ports stay connected
C4_Witness ==
    /\ phase = "alive"
    /\ last.op = "do_request" /\ last.pre_in_use
    /\ ConnectedNotInUse(_connection_state, _in_use)

\* C5: when both bits become set and device_acquire fails, begin_using_device
\* is not run, no timer is attached and the device stays not in use.
C5_FailedAcquireBeginsNothing ==
    (/\ PortNotified
     /\ _connection_state = FullyConnected
     /\ Count(calls, "device_acquire:fail") = 1)
    => /\ Count(calls, "begin_using_device") = 0
       /\ Count(calls, "timer_attach") = 0
       /\ ~_in_use


\* C6: device_acquire is idempotent: called while the handle is held, it
\* returns success without opening or claiming the device again, and the held
\* handle is unchanged.
C6_AcquireIdempotent ==
    (last.pre_handle # 0 /\ Count(calls, "device_acquire") > 0)
    => /\ Count(calls, "device_acquire:ok") = Count(calls, "device_acquire")
       /\ Count(calls, "libusb_open") = 0
       /\ Count(calls, "libusb_claim_interface") = 0
       /\ _handle = last.pre_handle
       /\ usb_open = 1
       /\ usb_claimed

\* a connection notification has run device_acquire with the handle held
C6_Witness ==
    /\ PortNotified
    /\ last.pre_handle # 0
    /\ Count(calls, "device_acquire") = 1
    /\ Count(calls, "device_acquire:ok") = 1

\* C7: no opened USB handle is leaked: the stored handle is non-null exactly
\* when one opened and claimed device is held, and nothing is open otherwise; a
\* failed claim closes the handle and clears it before failure is returned;
\* the release at shutdown releases the interface and closes the handle exactly
\* when one is held.
C7_NoHandleLeak ==
    /\ (_handle # 0) <=> (usb_open = 1 /\ usb_claimed)
    /\ (_handle = 0) => (usb_open = 0 /\ ~usb_claimed)
    /\ (Count(calls, "libusb_claim_interface") = 1 /\ last.pre_handle = 0 /\ _handle = 0)
       => /\ Pos(calls, "libusb_close") > Pos(calls, "libusb_claim_interface")
          /\ Pos(calls, "device_acquire:fail") > Pos(calls, "libusb_close")
    /\ (last.op = "destructor")
       => /\ _handle = 0
          /\ Count(calls, "device_release") = 1
          /\ Count(calls, "libusb_release_interface")
               = (IF last.pre_handle # 0 THEN 1 ELSE 0)
          /\ Count(calls, "libusb_close") = (IF last.pre_handle # 0 THEN 1 ELSE 0)

\* the device was opened, the claim failed, and the handle was closed
C7_Witness ==
    /\ last.op \in {"connection_handler", "set_active"}
    /\ last.pre_handle = 0
    /\ Count(calls, "libusb_open") = 1
    /\ Count(calls, "libusb_claim_interface") = 1
    /\ Count(calls, "libusb_close") = 1
    /\ _handle = 0 /\ usb_open = 0

\* everything of the driver but what the last handler returned, called and wrote
driver_vars ==
    << phase, _handle, usb_open, usb_claimed, _in_use, _connection_state, _active, timers,
       _vblank_connection, session_connections, ports, buttons, pads, _fn_pad_map,
       _mode, _note_grid_origin, _row_interval, _scale_root, _root_octave, _in_key,
       _octave_shift, _percussion, _selection_color, _contrast_color, _current_layout,
       _previous_layout, _splash_start, _current_pad_target, selected, _color_map,
       _color_map_free_list, _pressure_mode, now, rt >>

\* a step of set_active, as C8 describes it
C8_Step ==
    (last'.op = "set_active")
    => /\ (last'.yn /\ ~_active /\ _handle' = 0)
          => /\ ret' = -1
             /\ ~_active'
             /\ Count(calls', "begin_using_device") = 0
             /\ _in_use' = _in_use /\ timers' = timers
       /\ (last'.yn /\ ~_active /\ _handle' # 0)
          => (ret' = 0 /\ _active')
       /\ (last'.yn = _active)
          => (ret' = 0 /\ written' = << >> /\ UNCHANGED driver_vars)

\* C8: set_active(true) on an inactive driver whose USB acquisition fails
\* returns -1, leaves the driver inactive and does not run begin_using_device;
\* one whose acquisition succeeds returns 0 and makes the driver active;
\* set_active(yn) with yn the current active state returns 0 and changes
\* nothing.
C8_SetActive == [][C8_Step]_vars

\* set_active(true) has just failed on an inactive driver with both ports
\* connected
C8_Witness ==
    /\ last.op = "set_active" /\ last.yn /\ ~last.pre_active
    /\ last.pre_conn = FullyConnected
    /\ _handle = 0
    /\ ret = -1
    /\ ~_active

\* a before b, for the steps of the two that were taken
Before(a, b) == (Pos(calls, a) # 0 /\ Pos(calls, b) # 0) => Pos(calls, a) < Pos(calls, b)

C10_Step ==
    (~_in_use /\ Count(calls', "stop_using_device") > 0)
    => /\ Count(calls', "teardown") = 0
       /\ written' = << >>
       /\ UNCHANGED << buttons, pads, _fn_pad_map, _in_use, timers, _vblank_connection,
                       session_connections, _selection_color, _contrast_color >>
       /\ (last'.op = "do_request") => UNCHANGED driver_vars

\* C10: stop_using_device invoked when the device is not in use (a second time
\* right after a first, or from Disconnected or a partially connected state)
\* changes no control state and writes nothing.
C10_StopWhenNotInUse == [][C10_Step]_vars

\* a second Quit request right after the one that stopped the device
C10_Witness ==
    /\ last.op = "do_request" /\ ~last.pre_in_use
    /\ ConnectedNotInUse(_connection_state, _in_use)
    /\ _current_layout = "splash"
    /\ calls = << "stop_using_device" >>


\* the events of a buffer that are Note-On or Note-Off
NoteEvents(buf) == { i \in 1..Len(buf) : IsNote(buf[i]) }

\* the device was begun (the splash layout was set) and a connection bit has
\* been lost since: not fully connected, not in use
ConnectionLost ==
    /\ phase = "alive"
    /\ _current_layout = "splash"
    /\ _connection_state # FullyConnected
    /\ ~_in_use

\* C15: after a loss of connection and until the device is fully connected
\* again, pad_filter emits no pad Note-On/Off and midi_input_handler
\* dispatches no incoming MIDI.
C15_NothingForwardedWhileDisconnected ==
    ConnectionLost
    => /\ (last.op = "pad_filter") => (NoteEvents(out) = {})
       /\ (last.op = "midi_input_handler") => (Count(calls, "parse") = 0)


\* set_pad_scale has run last, by either of its callers
ScaleSet == last.op \in {"set_pad_scale", "restore_pad_scale"}

\* first_note of the two layouts: 36 for origin Fixed, root + 12 * octave for
\* origin Rooted
FirstNote(c) == IF c.origin = "Fixed" THEN 36 ELSE c.scale_root + (12 * c.octave)

\* C16: for every valid ScaleConfig, after set_pad_scale every one of the 64
\* pads has a filtered note that is unmapped (-1) or within 0..127.
C16_PadNotesInRange ==
    ScaleSet => \A nn \in PadNotes :
                   pads[nn].filtered = -1 \/ pads[nn].filtered \in 0..127

\* C17: in chromatic mode the pad at row r, column c is assigned the note
\* first_note + r * vertical_semitones + c, for every r and c in 0..7.
C17_ChromaticLayout ==
    (ScaleSet /\ ~last.cfg.inkey)
    => \A nn \in PadNotes :
          pads[nn].filtered
            = FirstNote(last.cfg)
              + (Row(nn) * row_interval_semitones(last.cfg.row_interval, FALSE))
              + Col(nn)


\* the semitones above the root of the notes of a mode's scale, root included
ScaleDegrees(mode) ==
    {0} \cup { ModeSteps4(mode)[i] \div 2 : i \in 1..Len(ModeSteps4(mode)) }

\* note belongs to the scale of configuration c
InScale(c, note) == \E d \in ScaleDegrees(c.mode) : (note - (c.scale_root + d)) % 12 = 0

\* in chromatic mode the pads of rows 0 and 1, column 0, differ by the row
\* spacing v
ShowsSpacing(v) ==
    (phase = "alive" /\ ~last.cfg.inkey) => pads[44].filtered - pads[36].filtered = v

\* C18 as stated: the row spacing is Third = 4, Fourth = 5, Fifth = 7 and
\* Sequential = 8 semitones, Sequential being the same in key and chromatic.
C18_SequentialAlwaysEight ==
    ScaleSet
    => LET v == CASE last.cfg.row_interval = "Third" -> 4
                  [] last.cfg.row_interval = "Fourth" -> 5
                  [] last.cfg.row_interval = "Fifth" -> 7
                  [] last.cfg.row_interval = "Sequential" -> 8
       IN  /\ row_interval_semitones(last.cfg.row_interval, last.cfg.inkey) = v
           /\ ShowsSpacing(v)

\* C18, amended: the row spacing is Third = 4, Fourth = 5, Fifth = 7, and
\* Sequential = 8 semitones in chromatic mode but 12 semitones in key.
C18_SequentialTwelveInKey ==
    ScaleSet
    => LET v == CASE last.cfg.row_interval = "Third" -> 4
                  [] last.cfg.row_interval = "Fourth" -> 5
                  [] last.cfg.row_interval = "Fifth" -> 7
                  [] last.cfg.row_interval = "Sequential" ->
                       IF last.cfg.inkey THEN 12 ELSE 8
       IN  /\ row_interval_semitones(last.cfg.row_interval, last.cfg.inkey) = v
           /\ ShowsSpacing(v)

\* a Sequential scale in key has been laid out
C18_Witness ==
    /\ ScaleSet /\ phase = "alive"
    /\ last.cfg.row_interval = "Sequential" /\ last.cfg.inkey
    /\ _row_interval = "Sequential" /\ _in_key
    /\ pads[36].filtered >= 0


\* the pad is classified as set_pad_note_kind leaves a RootNote pad
IsRootPad(p) ==
    /\ p.color = _selection_color /\ p.perma_color = _selection_color
    /\ p.do_when_pressed = "FlashOff"

\* ... an InScaleNote pad
IsInScalePad(p) ==
    p.color = White /\ p.perma_color = White /\ p.do_when_pressed = "FlashOff"

\* C19: in in-key mode, for every valid ScaleConfig every mapped pad's note
\* belongs to the mode's scale rooted at root, a mapped pad is classified
\* RootNote exactly when note % 12 = root and InScaleNote otherwise, and no pad
\* is classified OutOfScaleNote.
C19_InKeyPadsInScale ==
    (ScaleSet /\ last.cfg.inkey)
    => \A nn \in PadNotes :
          IF pads[nn].filtered >= 0
          THEN /\ pads[nn].filtered \in 0..127
               /\ InScale(last.cfg, pads[nn].filtered)
               /\ IF pads[nn].filtered % 12 = last.cfg.scale_root
                  THEN IsRootPad(pads[nn])
                  ELSE IsInScalePad(pads[nn])
          ELSE \* an unmapped pad is as the reset left it
               /\ pads[nn].color = Black /\ pads[nn].perma_color = Black
               /\ pads[nn].do_when_pressed = "FlashOn"

\* an in-key scale with a root other than C is laid out, with root pads and
\* other pads
C19_Witness ==
    /\ ScaleSet /\ last.cfg.inkey /\ phase = "alive"
    /\ last.cfg.scale_root = 5 /\ last.cfg.mode = "Dorian"
    /\ \E nn \in PadNotes : pads[nn].filtered >= 0 /\ pads[nn].filtered % 12 = 5
    /\ \E nn \in PadNotes : pads[nn].filtered >= 0 /\ pads[nn].filtered % 12 # 5


\* the in-scale notes from n on; the smallest of them is the next note of the
\* in-scale sequence at or after n (a scale has a note in every octave)
NextInScale(c, n) ==
    CHOOSE m \in n..(n + 12) : InScale(c, m) /\ \A h \in n..(m - 1) : ~InScale(c, h)

\* the note the in-key layout is to put on pad nn under configuration c:
\* column 0 takes the smallest in-scale note from first_note + r *
\* vertical_semitones on, each further column the next in-scale note
RECURSIVE InKeyNote(_, _)
InKeyNote(c, nn) ==
    IF Col(nn) = 0
    THEN NextInScale(c, FirstNote(c)
                        + (Row(nn) * row_interval_semitones(c.row_interval, TRUE)))
    ELSE NextInScale(c, InKeyNote(c, nn - 1) + 1)

\* C20 as stated: in in-key mode, in each row the column-0 pad is assigned the
\* smallest in-scale note >= first_note + r * vertical_semitones and columns
\* 1..7 the immediately following in-scale notes, none skipped.
C20_InKeyRowsConsecutive ==
    (ScaleSet /\ last.cfg.inkey)
    => \A nn \in PadNotes : pads[nn].filtered = InKeyNote(last.cfg, nn)

\* C20, amended: in in-key mode, in each row the column-0 pad is assigned the
\* smallest in-scale note >= first_note + r * vertical_semitones and columns
\* 1..7 the immediately following in-scale notes, none skipped, as long as
\* that note is at most 127; a pad whose note would be above 127 is unmapped.
C20_InKeyRowsConsecutiveTo127 ==
    (ScaleSet /\ last.cfg.inkey)
    => \A nn \in PadNotes :
          pads[nn].filtered = IF InKeyNote(last.cfg, nn) <= 127
                              THEN InKeyNote(last.cfg, nn) ELSE -1

\* an in-key scale is laid out whose top row runs past note 127
C20_Witness ==
    /\ ScaleSet /\ last.cfg.inkey /\ phase = "alive"
    /\ last.cfg.scale_root = 5
    /\ pads[36].filtered >= 0
    /\ pads[92].filtered >= 0
    /\ pads[99].filtered = -1


(***************************************************************************)
(* C12 .. C14: what the realtime note filter appends                       *)
(***************************************************************************)
\* the last step ran the filter on the block last.cfg
FilterRan == phase = "alive" /\ last.op = "pad_filter"

IsPadEvent(ev) == ev.type \in {"NoteOn", "NoteOff"} /\ ev.note \in PadNotes

\* what a pad's note event is to become: one event of the same type and
\* velocity with the mapped note moved by the octave shift, or nothing
PadRule(ev) ==
    IF pads[ev.note].filtered >= 0
    THEN << [ type |-> ev.type, velocity |-> ev.velocity,
              note |-> pads[ev.note].filtered + 12 * _octave_shift ] >>
    ELSE << >>

\* the output for the events in[i..], the pads' events by PadRule
RECURSIVE PadRuleLoop(_, _)
PadRuleLoop(in, i) ==
    IF i > Len(in) THEN << >>
    ELSE (IF IsPadEvent(in[i]) THEN PadRule(in[i]) ELSE Filtered(Cur, in[i]))
         \o PadRuleLoop(in, i + 1)

\* C12: outside the cue layout, every Note-On or Note-Off of a physical pad
\* in the block yields exactly one event of the same type and velocity with
\* note N + 12 * octave_shift when the pad is mapped to N >= 0, and nothing
\* when the pad is unmapped
C12_PadNotesRemapped ==
    (FilterRan /\ _current_layout # "cue") => out = PadRuleLoop(last.cfg, 1)

\* a block with a mapped and an unmapped pad was filtered under an octave
\* shift: one event came out, moved by the shift
C12_Witness ==
    /\ FilterRan /\ _current_layout # "cue" /\ _octave_shift = 2
    /\ last.cfg = << Event("NoteOff", 99, 0), Event("NoteOn", 36, 100) >>
    /\ pads[99].filtered = -1
    /\ pads[36].filtered >= 0
    /\ out = << [ Event("NoteOn", 36, 100) EXCEPT !.note = pads[36].filtered + 24 ] >>

IsPassedThrough(ev) == ev.type \in {"PitchBend", "PolyPressure", "ChannelPressure"}

\* C13: outside the cue layout, the pitch-bend, poly-pressure and
\* channel-pressure events of the block are in the output unmodified, once
\* each and in their order, whatever the pad mapping and the octave shift
C13_BendAndPressurePassThrough ==
    (FilterRan /\ _current_layout # "cue")
    => SelectSeq(out, IsPassedThrough) = SelectSeq(last.cfg, IsPassedThrough)

\* two such events went through in order, with pads unmapped and a shift
C13_Witness ==
    /\ FilterRan /\ _current_layout = "mix" /\ _octave_shift = -1
    /\ pads[99].filtered = -1
    /\ last.cfg = << Event("PolyPressure", 36, 9), Event("PitchBend", 0, 64) >>
    /\ out = last.cfg

\* C14: in the cue layout the filter appends nothing and reports no match
C14_CueLayoutFiltersNothing ==
    (FilterRan /\ _current_layout = "cue") => (out = << >> /\ ret = 0)

\* a block with a mapped pad's Note-On was filtered in the cue layout
C14_Witness ==
    /\ FilterRan /\ _current_layout = "cue"
    /\ pads[36].filtered >= 0
    /\ last.cfg = << Event("NoteOn", 36, 100), Event("PitchBend", 0, 64) >>
    /\ out = << >>


(***************************************************************************)
(* C11: the filter against a set_pad_scale in progress                     *)
(***************************************************************************)
\* the mapping before the update and the one it leaves
MappingBefore == IF rt.writer = "idle" THEN pads ELSE rt.before
MappingAfter == IF rt.writer = "idle" THEN pads ELSE rt.after

\* what the filter appends for the block in when it reads the mapping m
OutputUnder(m, in) == FilterLoop([Cur EXCEPT !.pads = m], in, 1)

\* C11: a pad_filter invocation that runs while set_pad_scale runs has seen
\* the complete mapping from before the update or the complete mapping it
\* leaves, never a partly cleared or partly rebuilt one
C11_FilterSeesWholeMapping ==
    (phase = "alive" /\ last.op = "pad_filter" /\ rt.reader = "idle")
    => out \in { OutputUnder(MappingBefore, last.cfg), OutputUnder(MappingAfter, last.cfg) }

\* the filter is never held up by the update: its next step can be taken in
\* every state in which it is running
C11_FilterNeverWaits == (phase = "alive" /\ rt.reader = "running") => ENABLED PadFilterStep


(***************************************************************************)
(* C21: the in-scale note sequence of in-key mode                          *)
(***************************************************************************)
\* the sequence in-key mode lays the pads out from, for the scale just set
NotesVector == mode_notes_vector(last.cfg.scale_root, last.cfg.octave, last.cfg.mode)

InKeyScaleSet == last.op = "set_pad_scale" /\ last.cfg.inkey

\* C21: the in-scale note sequence is strictly ascending and holds exactly
\* the notes in 0..127 that belong to the mode rooted at root in any octave,
\* note 0 included
C21_ModeNotesExact ==
    InKeyScaleSet
    => /\ \A i \in 1..(Len(NotesVector) - 1) : NotesVector[i] < NotesVector[i + 1]
       /\ { NotesVector[i] : i \in 1..Len(NotesVector) }
            = { n \in 0..127 : InScale(last.cfg, n) }

\* the sequence is exact but for note 0, which it holds only as a root
C21_ModeNotesExactButZero ==
    InKeyScaleSet
    => /\ \A i \in 1..(Len(NotesVector) - 1) : NotesVector[i] < NotesVector[i + 1]
       /\ { NotesVector[i] : i \in 1..Len(NotesVector) }
            = { n \in 0..127 : InScale(last.cfg, n) /\ (n = 0 => last.cfg.scale_root = 0) }


(***************************************************************************)
(* C22: the classification of the mapped pads and their LED policy         *)
(***************************************************************************)
\* a pad that shows as an OutOfScaleNote pad
IsOutOfScalePad(p) ==
    p.color = Black /\ p.perma_color = Black /\ p.do_when_pressed = "FlashOn"

\* the classification of a note under the scale c
KindOf(c, note) ==
    IF note % 12 = c.scale_root THEN "RootNote"
    ELSE IF ~c.inkey /\ ~InScale(c, note) THEN "OutOfScaleNote"
    ELSE "InScaleNote"

ColorAsked == phase = "alive" /\ last.op = "get_color_index"

\* C23: get_color_index is idempotent: the second of two calls with the same
\* color returns the same index, writes no message and changes neither the
\* color cache nor the free list
C23_SecondCallChangesNothing ==
    (ColorAsked /\ last.cfg.again)
    => /\ ret = last.cfg.pre_ret
       /\ written = << >>
       /\ _color_map = last.cfg.pre_map
       /\ _color_map_free_list = last.cfg.pre_free

\* the color that was allocated last, by random replacement with the free
\* list used up, is asked for again
C23_Witness ==
    /\ ColorAsked /\ last.cfg.again
    /\ last.cfg.rgba = Color(MaxColors)
    /\ _color_map_free_list = << >>
    /\ ret \in 1..121

StandardKeys == DOMAIN StandardColorMap

\* the palette messages written by the last call
PaletteWrites == { i \in 1..Len(written) : written[i].kind = "sysex"
                                            /\ Len(written[i].bytes) = 17 }

\* C24: a color that is not one of the seven standard colors always has an
\* index in 1..121, also once the 121 slots are used up; the reserved indices
\* 0 and 122..127 are never sent in a set-palette-entry message, and the
\* seven standard colors keep their reserved indices
C24_ReservedIndicesKept ==
    /\ \A rgba \in DOMAIN _color_map :
          IF rgba \in StandardKeys THEN _color_map[rgba] = StandardColorMap[rgba]
          ELSE _color_map[rgba] \in 1..121
    /\ StandardKeys \subseteq DOMAIN _color_map
    /\ \A i \in PaletteWrites : written[i].bytes[8] \in 1..121
    /\ (ColorAsked /\ last.cfg.rgba \notin StandardKeys) => ret \in 1..121

\* more than 121 colors have been allocated, the last by replacement
C24_Witness ==
    /\ ColorAsked /\ ~last.yn
    /\ CustomColors > 121
    /\ last.cfg.pre_free = << >>
    /\ PaletteWrites # {}

\* C25: the free list holds exactly the indices in 1..121 that no color of
\* the cache maps to, each at most once
C25_FreeListIsUnmapped ==
    /\ { _color_map_free_list[i] : i \in 1..Len(_color_map_free_list) }
         = { n \in 1..121 : \A rgba \in DOMAIN _color_map : _color_map[rgba] # n }
    /\ \A i, j \in 1..Len(_color_map_free_list) :
          i # j => _color_map_free_list[i] # _color_map_free_list[j]

\* some of the indices are allocated, some are free
C25_Witness ==
    /\ ColorAsked /\ ~last.yn
    /\ Len(_color_map_free_list) = 60
    /\ CustomColors = 61

\* C26: a call for a color that is not in the cache writes exactly two
\* messages: the 17-byte set-palette-entry message with the returned index
\* and each channel as its low 7 bits and then its high bit, followed by the
\* apply-palette message; every byte between F0 and F7 is below 0x80
C26_PaletteMessages ==
    (ColorAsked /\ ~last.yn)
    => /\ Len(written) = 2
       /\ written[1].kind = "sysex" /\ written[2].kind = "sysex"
       /\ Len(written[1].bytes) = 17
       /\ SubSeq(written[1].bytes, 1, 14)
            = << 240, 0, 33, 29, 1, 1, 3, ret,
                 last.cfg.rgba[1] % 128, last.cfg.rgba[1] \div 128,
                 last.cfg.rgba[2] % 128, last.cfg.rgba[2] \div 128,
                 last.cfg.rgba[3] % 128, last.cfg.rgba[3] \div 128 >>
       /\ written[1].bytes[16] \in {0, 1}
       /\ written[1].bytes[17] = 247
       /\ \A i \in 2..16 : written[1].bytes[i] < 128
       /\ written[2].bytes = << 240, 0, 33, 29, 1, 1, 5, 247 >>

\* a color with a red channel of 128 or more and a blue one below was new
C26_Witness ==
    /\ ColorAsked /\ ~last.yn
    /\ last.cfg.rgba[1] >= 128 /\ last.cfg.rgba[3] < 128
    /\ Len(written) = 2
    /\ written[1].bytes[10] = 1 /\ written[1].bytes[14] = 0


(***************************************************************************)
(* C27: incoming System-Exclusive messages                                 *)
(***************************************************************************)
SysexHandled == phase = "alive" /\ last.op = "handle_midi_sysex"

\* a message of at least 8 bytes with the header F0 00 21 1D 01 01 and the
\* command byte 0x1F at offset 6
IsPressureModeReply(msg) ==
    /\ Len(msg) >= 8
    /\ SubSeq(msg, 1, 6) = << 240, 0, 33, 29, 1, 1 >>
    /\ msg[7] = 31

\* C27: a System-Exclusive message changes the stored pressure mode only
\* when it is long enough, starts with the header F0 00 21 1D 01 01 and has
\* 0x1F at offset 6; the mode is then AfterTouch for a 0 at offset 7 and
\* PolyPressure otherwise.  Every other message is dropped: no change, no
\* PressureModeChange signal
C27_SysexSetsPressureMode ==
    SysexHandled
    => IF IsPressureModeReply(last.cfg.msg)
       THEN IF last.cfg.msg[8] = 0
            THEN _pressure_mode = "AfterTouch" /\ calls = << "PressureModeChange:AfterTouch" >>
            ELSE _pressure_mode = "PolyPressure" /\ calls = << "PressureModeChange:PolyPressure" >>
       ELSE _pressure_mode = last.cfg.pre_mode /\ calls = << >> /\ written = << >>

\* a reply switched the mode to PolyPressure, and a message with another
\* manufacturer byte then left it
C27_Witness ==
    /\ SysexHandled
    /\ last.cfg.msg = << 240, 0, 33, 30, 1, 1, 31, 0, 247 >>
    /\ last.cfg.pre_mode = "PolyPressure"
    /\ _pressure_mode = "PolyPressure"


(***************************************************************************)
(* C28: a Note-On with velocity 0 and a Note-Off                           *)
(***************************************************************************)
\* the two messages leave the same pads and the same written messages
SameLights(a, b) ==
    /\ handle_midi_note_on_message(Cur, a).pads = handle_midi_note_on_message(Cur, b).pads
    /\ handle_midi_note_on_message(Cur, a).written = handle_midi_note_on_message(Cur, b).written

\* C28: a Note-On with velocity 0 is handled as a Note-Off of the same note:
\* for every note, every Note-Off velocity and in every state the two leave
\* the same pad LED states and the same written messages
C28_ZeroVelocityNoteOnIsNoteOff ==
    (phase = "alive" /\ _in_use)
    => \A off \in { ev \in NoteInputs : ev.type = "NoteOff" } :
          SameLights(Event("NoteOn", off.note, 0), off)

\* the two are handled alike when the Note-Off has velocity 0 as well
C28_ZeroVelocityNoteOffOnly ==
    (phase = "alive" /\ _in_use)
    => \A off \in { ev \in NoteInputs : ev.type = "NoteOff" /\ ev.velocity = 0 } :
          SameLights(Event("NoteOn", off.note, 0), off)


(***************************************************************************)
(* C29: the saved scalars                                                  *)
(***************************************************************************)
StateRestored == phase = "alive" /\ last.op = "set_state"

\* the field is the saved one if the node has the property, and is left
\* alone if not
RoundTrip(name, field, saved, pre) ==
    IF name \in last.cfg.missing THEN field = pre ELSE field = saved

\* C29: root, root-octave, in-key and mode go through get_state and
\* set_state unchanged, and a node lacking one of the properties leaves that
\* field as it was
C29_ScalarsRoundTrip ==
    StateRestored
    => /\ RoundTrip("root", _scale_root, last.cfg.saved.root, last.cfg.pre.root)
       /\ RoundTrip("root-octave", _root_octave, last.cfg.saved.octave, last.cfg.pre.octave)
       /\ RoundTrip("in-key", _in_key, last.cfg.saved.inkey, last.cfg.pre.inkey)
       /\ RoundTrip("mode", _mode, last.cfg.saved.mode, last.cfg.pre.mode)

\* a state with other scalars was restored from a node without the mode
C29_Witness ==
    /\ StateRestored
    /\ last.cfg.missing = {"mode"}
    /\ last.cfg.saved = [ root |-> 11, octave |-> 10, inkey |-> FALSE, mode |-> "IonianMajor" ]
    /\ last.cfg.pre = [ root |-> 0, octave |-> 3, inkey |-> TRUE, mode |-> "Chromatic" ]
    /\ _scale_root = 11 /\ _root_octave = 10 /\ ~_in_key /\ _mode = "Chromatic"


(***************************************************************************)
(* C30: the pads after a reconnect                                         *)
(***************************************************************************)
\* the last notification completed the connection of a driver that was not
\* in use, and the device is in use again
Reconnected ==
    /\ phase = "alive"
    /\ last.op = "connection_handler" /\ last.yn
    /\ ~last.pre_in_use /\ _in_use

\* the pads as set_pad_scale computes them from the stored scale
StoredScalePads ==
    set_pad_scale(Cur, _scale_root, _root_octave, _mode, _note_grid_origin,
                  _row_interval, _in_key).pads

MapMatchesPads ==
    /\ \A nn \in PadNotes :
          pads[nn].filtered >= 0
          => Cardinality({ k \in 1..Len(_fn_pad_map) :
                             _fn_pad_map[k] = << pads[nn].filtered, nn >> }) = 1
    /\ \A k \in 1..Len(_fn_pad_map) :
          /\ _fn_pad_map[k][2] \in PadNotes
          /\ pads[_fn_pad_map[k][2]].filtered = _fn_pad_map[k][1]
          /\ _fn_pad_map[k][1] >= 0

\* the call wrote the state message of every pad as the call left it, pad by
\* pad, and nothing else
WroteAllPads == written = [ i \in 1..64 |-> PadStateMsg(35 + i, pads[35 + i]) ]

\* C31: every set_pad_scale call rebuilds the reverse map so that it holds
\* exactly one entry (note, pad) for every mapped pad and nothing else, and
\* writes exactly 64 pad state messages, one per pad, after all pads have
\* been recomputed
C31_MapRebuiltAndPadsWritten == ScaleSet => (MapMatchesPads /\ WroteAllPads)

\* the same for the calls that return
C31_WhenTheCallReturns == (phase = "alive" /\ ScaleSet) => (MapMatchesPads /\ WroteAllPads)


(***************************************************************************)
(* C32: the pads set_pad_scale leaves unmapped                             *)
(***************************************************************************)
\* the highest note of the scale of configuration c
HighestInScale(c) == CHOOSE n \in 0..127 : InScale(c, n) /\ \A m \in (n + 1)..127 : ~InScale(c, m)

\* the unmapped pads are as the reset left them; chromatic mode maps every
\* pad; in key the unmapped pads of a row are its last columns and come
\* after the highest note of the scale
UnmappedOnlyAtTheTop ==
    \A nn \in PadNotes :
       pads[nn].filtered < 0
       => /\ pads[nn].filtered = -1
          /\ IsOutOfScalePad(pads[nn])
          /\ last.cfg.inkey
          /\ \A other \in PadNotes :
                (Row(other) = Row(nn) /\ other > nn) => pads[other].filtered = -1
          /\ Col(nn) > 0 => pads[nn - 1].filtered \in {-1, HighestInScale(last.cfg)}

\* C32: a pad is left unmapped by set_pad_scale only when the in-scale
\* sequence is exhausted at the top of the MIDI range in in-key mode; in
\* chromatic mode all 64 pads are mapped; the unmapped pads of a row are a
\* trailing run of columns after the highest in-scale note; an unmapped pad
\* has filtered -1, color and perma_color Black and press policy FlashOn
C32_UnmappedPadsOnlyAtTop == ScaleSet => UnmappedOnlyAtTheTop

\* the same for the calls that return
C32_WhenTheCallReturns == (phase = "alive" /\ ScaleSet) => UnmappedOnlyAtTheTop


(***************************************************************************)
(* C33: the grid origin                                                    *)
(***************************************************************************)
\* the bottom-left pad plays the scale root for origin Rooted, and the
\* smallest in-scale note from 36 on for origin Fixed in key
BottomLeftAtOrigin ==
    /\ last.cfg.origin = "Rooted"
       => /\ pads[36].filtered = last.cfg.scale_root + (12 * last.cfg.octave)
          /\ IsRootPad(pads[36])
    /\ (last.cfg.origin = "Fixed" /\ last.cfg.inkey)
       => /\ pads[36].filtered = NextInScale(last.cfg, 36)
          /\ last.cfg.scale_root = 0 => (pads[36].filtered = 36 /\ IsRootPad(pads[36]))

\* C33: with origin Rooted, for every root 0..11, octave 0..10, mode, row
\* interval and in_key value, the bottom-left pad plays root + 12 * octave
\* and is a RootNote pad; with origin Fixed and in_key true it plays the
\* smallest in-scale note >= 36, for root 0 note 36 as a RootNote pad
C33_BottomLeftPadAtOrigin == ScaleSet => BottomLeftAtOrigin

\* the same for the scales whose root is a MIDI note
C33_WhenTheRootIsANote ==
    (ScaleSet /\ last.cfg.scale_root + (12 * last.cfg.octave) <= 127) => BottomLeftAtOrigin


(***************************************************************************)
(* C34: leaving the fully connected state blacks out the surface           *)
(***************************************************************************)
\* stop_using_device has run from the in-use state
StoppedFromInUse ==
    /\ phase = "alive"
    /\ last.pre_in_use
    /\ Count(calls, "teardown") >= 1

\* the last state message written for the pad nn
LastPadMsg(nn) ==
    written[CHOOSE i \in 1..Len(written) :
               /\ written[i].kind = "pad" /\ written[i].pad = nn
               /\ \A j \in (i + 1)..Len(written) :
                     ~(written[j].kind = "pad" /\ written[j].pad = nn)]

\* the last state message written for the button id
LastButtonMsg(id) ==
    written[CHOOSE i \in 1..Len(written) :
               /\ written[i].kind = "button" /\ written[i].button = id
               /\ \A j \in (i + 1)..Len(written) :
                     ~(written[j].kind = "button" /\ written[j].button = id)]

\* C34: after stop_using_device has run from the in-use state every button
\* and every pad has color Black, the last state message written for each
\* carries Black, the periodic timer is stopped and the device is not in use
C34_StopBlacksOut ==
    StoppedFromInUse
    => /\ \A nn \in PadNotes :
             /\ pads[nn].color = Black
             /\ \E i \in 1..Len(written) : written[i].kind = "pad" /\ written[i].pad = nn
             /\ LastPadMsg(nn).color = Black
       /\ \A id \in ButtonSet :
             /\ buttons[id].color = Black
             /\ \E i \in 1..Len(written) : written[i].kind = "button" /\ written[i].button = id
             /\ LastButtonMsg(id).color = Black
       /\ ~_vblank_connection /\ timers = 0
       /\ ~_in_use

\* the LEDs, the connection object and the in-use flag alone: these hold
\* whichever number of timers begin_using_device had attached
C34_LedsAndConnection ==
    StoppedFromInUse
    => /\ \A nn \in PadNotes :
             /\ pads[nn].color = Black
             /\ \E i \in 1..Len(written) : written[i].kind = "pad" /\ written[i].pad = nn
             /\ LastPadMsg(nn).color = Black
       /\ \A id \in ButtonSet :
             /\ buttons[id].color = Black
             /\ \E i \in 1..Len(written) : written[i].kind = "button" /\ written[i].button = id
             /\ LastButtonMsg(id).color = Black
       /\ ~_vblank_connection
       /\ ~_in_use

\* the input port went away while the device was in use and the pads lit
C34_Witness ==
    /\ StoppedFromInUse
    /\ last.op = "connection_handler" /\ last.port = "in" /\ ~last.yn
    /\ _connection_state = {OutputConnected}
    /\ pads[36].perma_color # Black /\ pads[36].color = Black
    /\ LastButtonMsg("Upper1").status = 176 + StateIndex("OneShot24th")


(***************************************************************************)
(* The splash screen and the periodic timer.                               *)
(***************************************************************************)
\* "display splash for 2 seconds", in microseconds
SplashMicros == 2000000

\* the clock is read every half splash time, up to MaxTicks times
MaxTicks == 8
TickMicros == SplashMicros \div 2

\* a timer that never ends the splash
vblank_never(s) == s

\* Push2::vblank (the meters, the clocks and the canvas have no state here)
vblank(s) ==
    IF s._splash_start # 0 /\ s.now - s._splash_start > SplashMicros
    THEN set_current_layout([s EXCEPT !._splash_start = 0], "mix")
    ELSE s

\* an attached 40 ms timeout source fires
Vblank ==
    /\ phase = "alive"
    /\ timers > 0
    /\ Done(vblank(Cur))
    /\ Record([Summary("vblank", _current_layout, FALSE)
                  EXCEPT !.cfg = << _splash_start, now >>])

\* get_microseconds () moves on
Tick ==
    /\ phase = "alive"
    /\ now + TickMicros <= MaxTicks * TickMicros + 1
    /\ Done([Cur EXCEPT !.now = @ + TickMicros])
    /\ Record(Summary("tick", "", FALSE))

\* begin_using_device, called by connection_handler or set_active; it is
\* called while the clock leaves room for the splash time
BeginUsingDevice ==
    /\ phase = "alive"
    /\ now + 3 * TickMicros <= MaxTicks * TickMicros + 1
    /\ Done(begin_using_device(Cur))
    /\ Record(Summary("begin_using_device", "", TRUE))

\* stop_using_device, called by connection_handler or stop
StopUsingDevice ==
    /\ phase = "alive"
    /\ _in_use
    /\ Done(stop_using_device(Cur))
    /\ Record(Summary("stop_using_device", "", FALSE))

\* the main loop keeps running the timer it has attached, and time passes
SplashLiveSpec ==
    /\ ScaleInit
    /\ [][BeginUsingDevice \/ StopUsingDevice \/ Vblank \/ Tick \/ SetCurrentLayout]_vars
    /\ WF_vars(Vblank) /\ WF_vars(Tick)

(***************************************************************************)
(* C35: the splash layout gives way to the mix layout after two seconds    *)
(***************************************************************************)
\* the timer has fired: the splash start and the clock it found
VblankRan == last.op = "vblank"

\* what begin_using_device and each firing of the timer leave
SplashSteps ==
    /\ (last.op = "begin_using_device" /\ phase = "alive")
       => (_current_layout = "splash" /\ _splash_start = now /\ _in_use)
    /\ (VblankRan /\ last.cfg[1] # 0 /\ last.cfg[2] - last.cfg[1] > SplashMicros)
       => (_current_layout = "mix" /\ _splash_start = 0)
    /\ (VblankRan /\ ~(last.cfg[1] # 0 /\ last.cfg[2] - last.cfg[1] > SplashMicros))
       => (_current_layout = last.port /\ _splash_start = last.cfg[1])

\* C35: begin_using_device makes the splash layout current; while the device
\* stays in use and the timer keeps firing the layout eventually becomes the
\* mix layout with the splash start reset to 0; the timer changes the layout
\* only once more than 2 seconds have elapsed, and once per splash
C35_SplashThenMix ==
    /\ []SplashSteps
    /\ (_in_use /\ _splash_start # 0)
          ~> (~_in_use \/ (_current_layout = "mix" /\ _splash_start = 0))

\* the timer fires exactly 2 seconds after the splash and leaves it alone
C35_Witness ==
    /\ VblankRan /\ _in_use
    /\ last.cfg[1] # 0 /\ last.cfg[2] - last.cfg[1] = SplashMicros
    /\ _current_layout = "splash"

\* the timer has ended the splash
C35_Witness_Mix ==
    /\ VblankRan /\ _in_use
    /\ last.cfg[1] # 0 /\ last.port = "splash"
    /\ _current_layout = "mix" /\ _splash_start = 0


(***************************************************************************)
(* C36: at most one periodic timer, attached only while in use             *)
(***************************************************************************)
\* C36: in every reachable state at most one 40 ms timer source is attached
\* to the event loop, one is attached only while the device is in use, and
\* after stop_using_device none remains attached
C36_AtMostOneTimer ==
    /\ timers <= 1
    /\ (timers > 0) => _in_use
    /\ (phase = "alive" /\ Count(calls, "teardown") >= 1) => timers = 0

\* what the connection object alone tells: it is connected only while the
\* device is in use, and a source is attached whenever it is
C36_ConnectionObject ==
    phase = "alive"
    => /\ _vblank_connection => (_in_use /\ timers >= 1)
       /\ _in_use => _vblank_connection

\* two sources are attached while the device is in use
C36_TwoTimers == timers = 2 /\ _in_use /\ _vblank_connection


(***************************************************************************)
(* Percussive mode and the pad maps.                                       *)
(***************************************************************************)
\* the drum note of a pad: the left four columns count up from 36 row by
\* row, then the right four columns go on from 68
DrumNote(nn) ==
    IF Col(nn) < 4 THEN 36 + 4 * Row(nn) + Col(nn)
    ELSE 68 + 4 * Row(nn) + (Col(nn) - 4)

\* set_percussive_mode (false) after its set_pad_scale call has returned
PercussionOff(s) ==
    IF s.exception THEN s ELSE [s EXCEPT !._percussion = FALSE]

\* Push2::set_percussive_mode
set_percussive_mode(s, yn) ==
    IF ~yn THEN PercussionOff(reset_pad_colors(s))
    ELSE [s EXCEPT !._fn_pad_map = << >>,
                   !.pads = [ nn \in PadNotes |-> [@[nn] EXCEPT !.filtered = DrumNote(nn)] ],
                   !._percussion = TRUE]

\* percussive mode is switched on or off
SetPercussiveMode ==
    /\ phase = "alive"
    /\ \E yn \in BOOLEAN :
         /\ Done(set_percussive_mode(Cur, yn))
         /\ Record(Summary("set_percussive_mode", "", yn))

\* the scale, percussive mode and the pads of a device in use
PadMapSpec ==
    InputInit /\ [][SetPadScaleOf(FilterScales) \/ RestorePadScale \/ SetPercussiveMode
                      \/ HandleMidiNote]_vars

\* the scale and the restored state of a device in use
RestoreSpec ==
    InputInit /\ [][SetPadScaleOf(FilterScales) \/ SetState]_vars

(***************************************************************************)
(* C37: the reverse note-to-pad multimap is consistent with the pads       *)
(***************************************************************************)
\* the map contains (n, p) if and only if pad p's filtered note is n >= 0
MapConsistent ==
    /\ \A nn \in PadNotes :
          pads[nn].filtered >= 0
          => \E k \in 1..Len(_fn_pad_map) : _fn_pad_map[k] = << pads[nn].filtered, nn >>
    /\ \A k \in 1..Len(_fn_pad_map) :
          /\ _fn_pad_map[k][2] \in PadNotes
          /\ _fn_pad_map[k][1] >= 0
          /\ pads[_fn_pad_map[k][2]].filtered = _fn_pad_map[k][1]

\* C37: in every state reached after the first scale computation the reverse
\* map contains (n, p) if and only if pad p's filtered note is n and n >= 0
C37_ReverseMapConsistent == MapConsistent

\* outside percussive mode, with the scale laid out by a call that returned
C37_OutsidePercussiveMode ==
    (phase = "alive" /\ ~_percussion) => MapConsistent

\* percussive mode is on: every pad has its drum note and the map is empty
C37_PercussiveMapEmpty ==
    /\ phase = "alive" /\ _percussion
    /\ last.op = "set_percussive_mode" /\ last.yn
    /\ \A nn \in PadNotes : pads[nn].filtered = DrumNote(nn)
    /\ _fn_pad_map = << >>


(***************************************************************************)
(* C38: the pads are mapped according to the stored scale configuration    *)
(***************************************************************************)
\* the filtered note of every pad is the one set_pad_scale computes from the
\* stored root, octave, mode, origin, row interval and in_key
MappedAsStored ==
    \A nn \in PadNotes : pads[nn].filtered = StoredScalePads[nn].filtered

\* C38: outside percussive mode the pad-to-note mapping read by pad_filter
\* equals the mapping computed from the stored scale configuration, also
\* after set_state has restored persisted state
C38_PadsFollowStoredScale ==
    (phase = "alive" /\ ~_percussion) => MappedAsStored

\* the same, when the last operation was not set_state
C38_UnlessStateRestored ==
    (phase = "alive" /\ ~_percussion /\ last.op # "set_state") => MappedAsStored

\* set_state has stored another root and the pads keep the previous mapping
C38_StaleAfterSetState ==
    /\ phase = "alive" /\ ~_percussion
    /\ last.op = "set_state"
    /\ _scale_root # last.cfg.pre.root
    /\ ~MappedAsStored


(***************************************************************************)
(* The filter on the notes of the encoders, the touch strip and other      *)
(* controls, and what it leaves in its input buffer.                       *)
(***************************************************************************)
\* encoder touch (note 10), touch strip (12), notes that are no pad (11 and
\* 100), a pad and a controller
TouchEvents ==
    { Event("NoteOn", 10, 100), Event("NoteOff", 12, 0), Event("NoteOn", 11, 1),
      Event("NoteOff", 100, 0), Event("NoteOn", 99, 100), Event("Controller", 7, 64) }

\* the event of the input buffer after the loop body: a mapped pad's note is
\* set to the shifted note for the output and then set back
InputAfter(s, ev) ==
    IF /\ s._current_layout # "cue"
       /\ IsNote(ev) /\ IsPadRange(ev)
       /\ ev.note \in DOMAIN s.pads
       /\ s.pads[ev.note].filtered >= 0
    THEN [[ev EXCEPT !.note = s.pads[ev.note].filtered + (s._octave_shift * 12)]
             EXCEPT !.note = ev.note]
    ELSE ev

\* the realtime thread runs the filter on a block of such events
PadFilterTouches ==
    /\ phase = "alive"
    /\ \E in \in UNION { [ 1..n -> TouchEvents ] : n \in 0..MaxBlock } :
         /\ Done(pad_filter(Cur, in))
         /\ Record([Summary("pad_filter", "", FALSE) EXCEPT
                       !.cfg = [ in |-> in,
                                 after |-> [ i \in 1..Len(in) |-> InputAfter(Cur, in[i]) ] ]])

TouchFilterSpec ==
    FilterInit /\ [][SetPadScaleOf(FilterScales) \/ SetCurrentLayout \/ PadFilterTouches]_vars

(***************************************************************************)
(* C39: the filter's treatment of note events that are not pads            *)
(***************************************************************************)
\* a Note-On/Off of an encoder touch or the touch strip
IsTouchNote(ev) == ev.type \in {"NoteOn", "NoteOff"} /\ (ev.note <= 10 \/ ev.note = 12)

\* a Note-On/Off with note > 10 and # 12
IsOtherNote(ev) == ev.type \in {"NoteOn", "NoteOff"} /\ ev.note > 10 /\ ev.note # 12

\* what an event is to become
TouchRule(ev) ==
    IF IsTouchNote(ev) THEN << >>
    ELSE IF IsOtherNote(ev) /\ ev.note \notin 36..99 THEN << ev >>
    ELSE IF IsOtherNote(ev) THEN PadRule(ev)
    ELSE IF ev.type \in {"PitchBend", "PolyPressure", "ChannelPressure"} THEN << ev >>
    ELSE << >>

RECURSIVE TouchRuleLoop(_, _)
TouchRuleLoop(in, i) ==
    IF i > Len(in) THEN << >> ELSE TouchRule(in[i]) \o TouchRuleLoop(in, i + 1)

\* C39: outside the cue layout a Note-On/Off with note <= 10 or note = 12 is
\* never written; one with note > 10 and # 12 that is no pad is written
\* unmodified; events of other types than note, pitch-bend and pressure are
\* never written; the filter returns true exactly when the block holds a
\* Note-On/Off with note > 10 and # 12; and the input is unchanged
C39_NonPadNotes ==
    (FilterRan /\ _current_layout # "cue")
    => /\ out = TouchRuleLoop(last.cfg.in, 1)
       /\ (ret = 1) <=> (\E i \in 1..Len(last.cfg.in) : IsOtherNote(last.cfg.in[i]))
       /\ ret \in {0, 1}
       /\ last.cfg.after = last.cfg.in

\* an encoder touch and a note that is no pad: one is dropped, the other is
\* written as it is, and the filter reports a match
C39_Witness ==
    /\ FilterRan /\ _current_layout # "cue" /\ _octave_shift = 2
    /\ last.cfg.in = << Event("NoteOn", 10, 100), Event("NoteOff", 100, 0) >>
    /\ out = << Event("NoteOff", 100, 0) >>
    /\ ret = 1

\* a pad that is mapped to no note is dropped and still reported as matched
C39_Witness_Unmapped ==
    /\ FilterRan /\ _current_layout # "cue"
    /\ pads[99].filtered = -1
    /\ last.cfg.in = << Event("Controller", 7, 64), Event("NoteOn", 99, 100) >>
    /\ out = << >> /\ ret = 1

(***************************************************************************)
(* C40: a press and a release of a mapped pad restore the LEDs             *)
(***************************************************************************)
\* the step handles the note event last'.cfg of a mapped pad outside the cue
\* layout
MappedPadStep ==
    /\ phase = "alive" /\ phase' = "alive"
    /\ last'.op = "handle_midi_note"
    /\ _current_layout # "cue"
    /\ last'.cfg.note \in PadNotes
    /\ pads[last'.cfg.note].filtered >= 0

\* the pads that generate the same note as the pad of the event
SameNotePads == { nn \in PadNotes : pads[nn].filtered = pads[last'.cfg.note].filtered }

\* a press: FlashOn pads show the contrast color, FlashOff pads Black
PressLights ==
    \A nn \in SameNotePads :
        /\ pads[nn].do_when_pressed = "FlashOn" => pads'[nn].color = _contrast_color
        /\ pads[nn].do_when_pressed = "FlashOff" => pads'[nn].color = Black

\* a release: the pads show their perma_color with state NoTransition
ReleaseRestores ==
    \A nn \in SameNotePads :
        /\ pads'[nn].color = pads[nn].perma_color
        /\ pads'[nn].state = "NoTransition"

\* what a press and a release of a mapped pad do to the pads
PressAndRelease ==
    MappedPadStep
    => /\ \A nn \in PadNotes \ SameNotePads : pads'[nn] = pads[nn]
       /\ \A nn \in PadNotes :
             /\ pads'[nn].perma_color = pads[nn].perma_color
             /\ pads'[nn].filtered = pads[nn].filtered
             /\ pads'[nn].do_when_pressed = pads[nn].do_when_pressed
       /\ last'.cfg.velocity > 0 => PressLights
       /\ last'.cfg.velocity = 0 => ReleaseRestores

\* C40: outside the cue layout, during the press of a mapped pad the FlashOn
\* pads with its note show the contrast color and the FlashOff pads Black;
\* after the release every pad with its note has color perma_color and state
\* NoTransition; pads with other notes are changed by neither event
C40_PressReleaseRestoresLeds == [][PressAndRelease]_vars

\* the same outside percussive mode
C40_OutsidePercussiveMode == [][~_percussion => PressAndRelease]_vars

\* a pad is pressed in percussive mode and no LED changes
C40_PercussivePressLightsNothing ==
    /\ phase = "alive" /\ _percussion /\ _current_layout # "cue"
    /\ last.op = "handle_midi_note" /\ last.cfg.velocity > 0
    /\ last.cfg.note = 36 /\ pads[36].filtered = 36
    /\ pads[36].do_when_pressed = "FlashOff" /\ pads[36].color # Black
    /\ written = << >>

\* a pad whose note several pads generate was released
C40_Released ==
    /\ phase = "alive" /\ ~_percussion /\ _current_layout # "cue"
    /\ last.op = "handle_midi_note" /\ last.cfg.velocity = 0
    /\ last.cfg.note = 44 /\ pads[44].filtered >= 0
    /\ pads[39].filtered = pads[44].filtered
    /\ Len(written) = 2
    /\ pads[39].color = pads[39].perma_color
    /\ pads[44].color = pads[44].perma_color

====
